---- MODULE Spec2Model ----
(***************************************************************************)
(* Model of the Monopoly simulation kernel: the rule engine (engine/),     *)
(* the GameRunner turn loop and the TurnManager (orchestrator/).           *)
(*                                                                         *)
(* The engine object (class Game) is the group of variables `players`,    *)
(* `bank`, `property_owners`, `current_player_index`, `turn_number`,       *)
(* `turn_phase`, `last_roll` and `events`.  Engine methods are operators   *)
(* from a game record to a game record, so that a caller that chains       *)
(* several engine calls in one step is written as their composition.       *)
(***************************************************************************)
EXTENDS Integers, Sequences, FiniteSets, TLC

VARIABLES
    players,               \* Game.players: player_id -> Player fields
    bank,                  \* Game.bank: houses_available, hotels_available
    property_owners,       \* Game._property_owners: position -> player_id, NoOwner when absent
    current_player_index,  \* Game.current_player_index
    turn_number,           \* Game.turn_number
    turn_phase,            \* Game.turn_phase
    last_roll,             \* Game.last_roll
    events,                \* events appended to Game.events by the latest step
    decks,                 \* Game.chance_deck and Game.community_chest_deck
    pc,                    \* where the orchestrator stands inside its turn
    orch,                  \* orchestrator-local fields and the bookkeeping of the current turn
    steps,                 \* number of steps taken (bounds the exploration)
    runner,                \* GameRunner's own fields: _running, _paused, stats, events sent to the bus
    srv                    \* the API layer: event bus, event history, connections, session registry

vars == <<players, bank, property_owners, current_player_index, turn_number,
          turn_phase, last_roll, events, decks, pc, orch, steps, runner, srv>>

-----------------------------------------------------------------------------
(* Program constants *)

NumPlayers == 2
MAX_HOUSES == 32
MAX_HOTELS == 12
STARTING_CASH == 1500
GO_SALARY == 200
JAIL_FINE == 50
MAX_JAIL_TURNS == 3
BOARD_SIZE == 40
JAIL_POSITION == 10

PlayerIds == 0 .. (NumPlayers - 1)
NoOwner == -1
NoRoll == [die1 |-> 0, die2 |-> 0]

-----------------------------------------------------------------------------
(* Board & static data (engine/board.py) *)

PropertyPositions == {1, 3, 6, 8, 9, 11, 13, 14, 16, 18, 19, 21, 23, 24, 26, 27, 29,
                      31, 32, 34, 37, 39}
RailroadPositions == {5, 15, 25, 35}
UtilityPositions == {12, 28}
Purchasable == PropertyPositions \cup RailroadPositions \cup UtilityPositions

PROPERTIES(pos) ==
    CASE pos = 1 -> [color_group |-> "BROWN", price |-> 60, mortgage_value |-> 30, rent |-> <<2, 10, 30, 90, 160, 250>>, house_cost |-> 50]
    [] pos = 3 -> [color_group |-> "BROWN", price |-> 60, mortgage_value |-> 30, rent |-> <<4, 20, 60, 180, 320, 450>>, house_cost |-> 50]
    [] pos = 6 -> [color_group |-> "LIGHT_BLUE", price |-> 100, mortgage_value |-> 50, rent |-> <<6, 30, 90, 270, 400, 550>>, house_cost |-> 50]
    [] pos = 8 -> [color_group |-> "LIGHT_BLUE", price |-> 100, mortgage_value |-> 50, rent |-> <<6, 30, 90, 270, 400, 550>>, house_cost |-> 50]
    [] pos = 9 -> [color_group |-> "LIGHT_BLUE", price |-> 120, mortgage_value |-> 60, rent |-> <<8, 40, 100, 300, 450, 600>>, house_cost |-> 50]
    [] pos = 11 -> [color_group |-> "PINK", price |-> 140, mortgage_value |-> 70, rent |-> <<10, 50, 150, 450, 625, 750>>, house_cost |-> 100]
    [] pos = 13 -> [color_group |-> "PINK", price |-> 140, mortgage_value |-> 70, rent |-> <<10, 50, 150, 450, 625, 750>>, house_cost |-> 100]
    [] pos = 14 -> [color_group |-> "PINK", price |-> 160, mortgage_value |-> 80, rent |-> <<12, 60, 180, 500, 700, 900>>, house_cost |-> 100]
    [] pos = 16 -> [color_group |-> "ORANGE", price |-> 180, mortgage_value |-> 90, rent |-> <<14, 70, 200, 550, 750, 950>>, house_cost |-> 100]
    [] pos = 18 -> [color_group |-> "ORANGE", price |-> 180, mortgage_value |-> 90, rent |-> <<14, 70, 200, 550, 750, 950>>, house_cost |-> 100]
    [] pos = 19 -> [color_group |-> "ORANGE", price |-> 200, mortgage_value |-> 100, rent |-> <<16, 80, 220, 600, 800, 1000>>, house_cost |-> 100]
    [] pos = 21 -> [color_group |-> "RED", price |-> 220, mortgage_value |-> 110, rent |-> <<18, 90, 250, 700, 875, 1050>>, house_cost |-> 150]
    [] pos = 23 -> [color_group |-> "RED", price |-> 220, mortgage_value |-> 110, rent |-> <<18, 90, 250, 700, 875, 1050>>, house_cost |-> 150]
    [] pos = 24 -> [color_group |-> "RED", price |-> 240, mortgage_value |-> 120, rent |-> <<20, 100, 300, 750, 925, 1100>>, house_cost |-> 150]
    [] pos = 26 -> [color_group |-> "YELLOW", price |-> 260, mortgage_value |-> 130, rent |-> <<22, 110, 330, 800, 975, 1150>>, house_cost |-> 150]
    [] pos = 27 -> [color_group |-> "YELLOW", price |-> 260, mortgage_value |-> 130, rent |-> <<22, 110, 330, 800, 975, 1150>>, house_cost |-> 150]
    [] pos = 29 -> [color_group |-> "YELLOW", price |-> 280, mortgage_value |-> 140, rent |-> <<24, 120, 360, 850, 1025, 1200>>, house_cost |-> 150]
    [] pos = 31 -> [color_group |-> "GREEN", price |-> 300, mortgage_value |-> 150, rent |-> <<26, 130, 390, 900, 1100, 1275>>, house_cost |-> 200]
    [] pos = 32 -> [color_group |-> "GREEN", price |-> 300, mortgage_value |-> 150, rent |-> <<26, 130, 390, 900, 1100, 1275>>, house_cost |-> 200]
    [] pos = 34 -> [color_group |-> "GREEN", price |-> 320, mortgage_value |-> 160, rent |-> <<28, 150, 450, 1000, 1200, 1400>>, house_cost |-> 200]
    [] pos = 37 -> [color_group |-> "DARK_BLUE", price |-> 350, mortgage_value |-> 175, rent |-> <<35, 175, 500, 1100, 1300, 1500>>, house_cost |-> 200]
    [] pos = 39 -> [color_group |-> "DARK_BLUE", price |-> 400, mortgage_value |-> 200, rent |-> <<50, 200, 600, 1400, 1700, 2000>>, house_cost |-> 200]

RAILROAD_PRICE == 200
RAILROAD_MORTGAGE == 100
UTILITY_PRICE == 150
UTILITY_MORTGAGE == 75

RAILROAD_RENTS(count) ==
    CASE count = 1 -> 25 [] count = 2 -> 50 [] count = 3 -> 100 [] count = 4 -> 200
      [] OTHER -> 0

UTILITY_MULTIPLIERS(count) ==
    CASE count = 1 -> 4 [] count = 2 -> 10 [] OTHER -> 0

COLOR_GROUP_POSITIONS(cg) == {q \in PropertyPositions : PROPERTIES(q).color_group = cg}

SpaceType(pos) ==
    CASE pos \in PropertyPositions -> "PROPERTY"
      [] pos \in RailroadPositions -> "RAILROAD"
      [] pos \in UtilityPositions -> "UTILITY"
      [] pos \in {4, 38} -> "TAX"
      [] pos \in {7, 22, 36} -> "CHANCE"
      [] pos \in {2, 17, 33} -> "COMMUNITY_CHEST"
      [] pos = 0 -> "GO"
      [] pos = 10 -> "JAIL"
      [] pos = 20 -> "FREE_PARKING"
      [] pos = 30 -> "GO_TO_JAIL"

TaxAmount(pos) == IF pos = 4 THEN 200 ELSE 100

get_purchase_price(pos) ==
    IF pos \in PropertyPositions THEN PROPERTIES(pos).price
    ELSE IF pos \in RailroadPositions THEN RAILROAD_PRICE
    ELSE IF pos \in UtilityPositions THEN UTILITY_PRICE
    ELSE 0

get_nearest_railroad(position) ==
    IF \E rr \in RailroadPositions : rr > position
    THEN CHOOSE rr \in RailroadPositions :
            rr > position /\ \A r2 \in RailroadPositions : r2 > position => rr <= r2
    ELSE 5

get_nearest_utility(position) ==
    IF \E u \in UtilityPositions : u > position
    THEN CHOOSE u \in UtilityPositions :
            u > position /\ \A u2 \in UtilityPositions : u2 > position => u <= u2
    ELSE 12

-----------------------------------------------------------------------------
(* Player (engine/player.py): operators on one player's record *)

NewPlayer(c) ==
    [position |-> 0, cash |-> c, properties |-> {},
     houses |-> [q \in PropertyPositions |-> 0], mortgaged |-> {},
     in_jail |-> FALSE, jail_turns |-> 0, get_out_of_jail_cards |-> 0,
     is_bankrupt |-> FALSE, consecutive_doubles |-> 0]

add_cash(pl, amount) == [pl EXCEPT !.cash = @ + amount]

\* remove_cash without the balance check
remove_cash_unchecked(pl, amount) == [pl EXCEPT !.cash = @ - amount]

remove_cash(pl, amount) ==
    IF pl.cash < amount THEN pl ELSE [pl EXCEPT !.cash = @ - amount]

add_property(pl, pos) == [pl EXCEPT !.properties = @ \cup {pos}]

get_house_count(pl, pos) == IF pos \in PropertyPositions THEN pl.houses[pos] ELSE 0

set_houses(pl, pos, count) == [pl EXCEPT !.houses[pos] = count]

remove_property(pl, pos) ==
    [pl EXCEPT !.properties = @ \ {pos},
               !.mortgaged = @ \ {pos},
               !.houses = [q \in PropertyPositions |-> IF q = pos THEN 0 ELSE @[q]]]

owns_property(pl, pos) == pos \in pl.properties

player_mortgage_property(pl, pos) == [pl EXCEPT !.mortgaged = @ \cup {pos}]

player_unmortgage_property(pl, pos) == [pl EXCEPT !.mortgaged = @ \ {pos}]

is_mortgaged(pl, pos) == pos \in pl.mortgaged

send_to_jail(pl) ==
    [pl EXCEPT !.position = JAIL_POSITION, !.in_jail = TRUE, !.jail_turns = 0,
               !.consecutive_doubles = 0]

release_from_jail(pl) == [pl EXCEPT !.in_jail = FALSE, !.jail_turns = 0]

move_to(pl, pos) == [pl EXCEPT !.position = pos % BOARD_SIZE]

move_to_passed_go(pl, pos) == (pos % BOARD_SIZE) < pl.position

move_forward(pl, spaces) == [pl EXCEPT !.position = (@ + spaces) % BOARD_SIZE]

\* passing GO told by the distance, not by the positions
passed_go_by_distance(pl, spaces) == pl.position + spaces >= BOARD_SIZE

move_forward_passed_go(pl, spaces) == ((pl.position + spaces) % BOARD_SIZE) < pl.position

-----------------------------------------------------------------------------
(* Rules (engine/rules.py): pure predicates and calculators *)

get_mortgage_value(pos) ==
    IF pos \in PropertyPositions THEN PROPERTIES(pos).mortgage_value
    ELSE IF pos \in RailroadPositions THEN RAILROAD_MORTGAGE
    ELSE IF pos \in UtilityPositions THEN UTILITY_MORTGAGE
    ELSE 0

\* the mortgage value alone, without the 10% interest
unmortgage_cost_without_interest(pos) == get_mortgage_value(pos)

\* int(mortgage_value * 1.1): equal to floor(11 * mv / 10) for every mortgage value of the board
unmortgage_cost(pos) == (get_mortgage_value(pos) * 11) \div 10

\* int(mortgage_value * 0.1): equal to floor(mv / 10) for every mortgage value of the board
mortgage_transfer_fee(pos) == get_mortgage_value(pos) \div 10

has_monopoly(pl, cg) == \A q \in COLOR_GROUP_POSITIONS(cg) : owns_property(pl, q)

property_rent(pos, owner) ==
    LET houses == get_house_count(owner, pos)
    IN  IF houses > 0 THEN PROPERTIES(pos).rent[houses + 1]
        ELSE IF has_monopoly(owner, PROPERTIES(pos).color_group)
             THEN PROPERTIES(pos).rent[1] * 2
             ELSE PROPERTIES(pos).rent[1]

railroad_rent(owner) ==
    RAILROAD_RENTS(Cardinality({q \in RailroadPositions :
                                  owns_property(owner, q) /\ ~is_mortgaged(owner, q)}))

utility_rent(owner, dice_roll) ==
    (dice_roll.die1 + dice_roll.die2)
      * UTILITY_MULTIPLIERS(Cardinality({q \in UtilityPositions :
                                  owns_property(owner, q) /\ ~is_mortgaged(owner, q)}))

calculate_rent(pos, owner, dice_roll) ==
    IF is_mortgaged(owner, pos) THEN 0
    ELSE IF pos \in PropertyPositions THEN property_rent(pos, owner)
    ELSE IF pos \in RailroadPositions THEN railroad_rent(owner)
    ELSE IF pos \in UtilityPositions THEN utility_rent(owner, dice_roll)
    ELSE 0

can_build_house(pl, pos, bk) ==
    /\ pos \in PropertyPositions
    /\ has_monopoly(pl, PROPERTIES(pos).color_group)
    /\ ~ \E q \in COLOR_GROUP_POSITIONS(PROPERTIES(pos).color_group) : is_mortgaged(pl, q)
    /\ get_house_count(pl, pos) < 4
    /\ \A q \in COLOR_GROUP_POSITIONS(PROPERTIES(pos).color_group) :
          q # pos => get_house_count(pl, q) >= get_house_count(pl, pos)
    /\ pl.cash >= PROPERTIES(pos).house_cost
    /\ bk.houses_available # 0

can_build_hotel(pl, pos, bk) ==
    /\ pos \in PropertyPositions
    /\ has_monopoly(pl, PROPERTIES(pos).color_group)
    /\ ~ \E q \in COLOR_GROUP_POSITIONS(PROPERTIES(pos).color_group) : is_mortgaged(pl, q)
    /\ get_house_count(pl, pos) = 4
    /\ \A q \in COLOR_GROUP_POSITIONS(PROPERTIES(pos).color_group) :
          q # pos => get_house_count(pl, q) >= 4
    /\ pl.cash >= PROPERTIES(pos).house_cost
    /\ bk.hotels_available # 0

can_sell_house(pl, pos) ==
    /\ pos \in PropertyPositions
    /\ get_house_count(pl, pos) > 0
    /\ get_house_count(pl, pos) # 5
    /\ \A q \in COLOR_GROUP_POSITIONS(PROPERTIES(pos).color_group) :
          q # pos => get_house_count(pl, q) <= get_house_count(pl, pos)

can_mortgage(pl, pos) ==
    /\ owns_property(pl, pos)
    /\ ~is_mortgaged(pl, pos)
    /\ pos \in PropertyPositions =>
          \A q \in COLOR_GROUP_POSITIONS(PROPERTIES(pos).color_group) :
              get_house_count(pl, q) = 0

can_unmortgage(pl, pos) ==
    /\ owns_property(pl, pos)
    /\ is_mortgaged(pl, pos)
    /\ pl.cash >= unmortgage_cost(pos)

SeqToSet(s) == {s[i] : i \in 1 .. Len(s)}

\* Rules.validate_trade: TRUE when the proposal passes every check
validate_trade(proposal, proposer, receiver) ==
    /\ \A q \in SeqToSet(proposal.offered_properties) :
          owns_property(proposer, q) /\ get_house_count(proposer, q) = 0
    /\ \A q \in SeqToSet(proposal.requested_properties) :
          owns_property(receiver, q) /\ get_house_count(receiver, q) = 0
    /\ ~(proposal.offered_cash > 0 /\ proposer.cash < proposal.offered_cash)
    /\ ~(proposal.requested_cash > 0 /\ receiver.cash < proposal.requested_cash)
    /\ proposal.offered_jail_cards <= proposer.get_out_of_jail_cards
    /\ proposal.requested_jail_cards <= receiver.get_out_of_jail_cards
    /\ ~(/\ proposal.offered_properties = <<>>
         /\ proposal.requested_properties = <<>>
         /\ proposal.offered_cash = 0 /\ proposal.requested_cash = 0
         /\ proposal.offered_jail_cards = 0 /\ proposal.requested_jail_cards = 0)

-----------------------------------------------------------------------------
(* Bank (engine/bank.py) *)

Min(a, b) == IF a < b THEN a ELSE b

buy_house(bk) ==
    IF bk.houses_available <= 0 THEN bk ELSE [bk EXCEPT !.houses_available = @ - 1]

return_house(bk) == [bk EXCEPT !.houses_available = Min(@ + 1, MAX_HOUSES)]

return_hotel(bk) == [bk EXCEPT !.hotels_available = Min(@ + 1, MAX_HOTELS)]

upgrade_to_hotel(bk) ==
    IF bk.hotels_available <= 0 THEN bk
    ELSE [bk EXCEPT !.hotels_available = @ - 1,
                    !.houses_available = Min(@ + 4, MAX_HOUSES)]

downgrade_from_hotel_ok(bk) == bk.houses_available >= 4

downgrade_from_hotel(bk) ==
    IF ~downgrade_from_hotel_ok(bk) THEN bk
    ELSE [bk EXCEPT !.houses_available = @ - 4,
                    !.hotels_available = Min(@ + 1, MAX_HOTELS)]

RECURSIVE return_houses(_, _)
\* `for _ in range(houses): self.bank.return_house()`
return_houses(bk, n) == IF n <= 0 THEN bk ELSE return_houses(return_house(bk), n - 1)

-----------------------------------------------------------------------------
(* Game (engine/game.py): engine methods as operators on the game record *)

Game ==
    [players |-> players, bank |-> bank, property_owners |-> property_owners,
     current_player_index |-> current_player_index, turn_number |-> turn_number,
     turn_phase |-> turn_phase, last_roll |-> last_roll, events |-> events,
     decks |-> decks]

\* Game._emit (the event's type and player_id; `amount` carries the data field
\* the properties read, 0 when the event has none)
emit(g, event_type, player_id, amount) ==
    [g EXCEPT !.events = Append(@, [event_type |-> event_type, player_id |-> player_id,
                                    amount |-> amount])]

get_property_owner(g, pos) ==
    IF pos \in Purchasable THEN g.property_owners[pos] ELSE NoOwner

is_property_owned(g, pos) == pos \in Purchasable /\ g.property_owners[pos] # NoOwner

\* assign_property without the player's own set (the index alone is written)
assign_index_only(g, pid, pos) == [g EXCEPT !.property_owners[pos] = pid]

assign_property(g, pid, pos) ==
    [g EXCEPT !.property_owners[pos] = pid,
              !.players[pid] = add_property(@, pos)]

roll_dice(g, roll) ==
    emit([g EXCEPT !.last_roll = roll], "DICE_ROLLED", -1, roll.die1 + roll.die2)

move_player(g, pid, spaces) ==
    LET passed_go == move_forward_passed_go(g.players[pid], spaces)
        g1 == [g EXCEPT !.players[pid] = move_forward(@, spaces)]
        g2 == emit(g1, "PLAYER_MOVED", pid, g1.players[pid].position)
    IN  IF passed_go
        THEN emit([g2 EXCEPT !.players[pid] = add_cash(@, GO_SALARY)],
                  "PASSED_GO", pid, GO_SALARY)
        ELSE g2

move_player_to(g, pid, pos, collect_go) ==
    LET passed_go == move_to_passed_go(g.players[pid], pos)
        g1 == [g EXCEPT !.players[pid] = move_to(@, pos)]
        g2 == emit(g1, "PLAYER_MOVED", pid, g1.players[pid].position)
    IN  IF passed_go /\ collect_go
        THEN emit([g2 EXCEPT !.players[pid] = add_cash(@, GO_SALARY)],
                  "PASSED_GO", pid, GO_SALARY)
        ELSE g2

pay_rent(g, payer, owner_id, amount) ==
    LET g1 == [g EXCEPT !.players[payer] = remove_cash(@, amount)]
        g2 == [g1 EXCEPT !.players[owner_id] = add_cash(@, amount)]
    IN  emit(g2, "RENT_PAID", payer, amount)

buy_property_ok(g, pid, pos) ==
    LET price == get_purchase_price(pos)
    IN  ~(price = 0 \/ g.players[pid].cash < price) /\ ~is_property_owned(g, pos)

buy_property(g, pid, pos) ==
    IF ~buy_property_ok(g, pid, pos) THEN g
    ELSE LET g1 == [g EXCEPT !.players[pid] = remove_cash(@, get_purchase_price(pos))]
         IN  emit(assign_property(g1, pid, pos), "PROPERTY_PURCHASED", pid,
                  get_purchase_price(pos))

\* valid_bids without the test of the bidder's cash
valid_bids_ignoring_cash(g, bids) ==
    SelectSeq(bids, LAMBDA b : b.amount > 0 /\ ~g.players[b.pid].is_bankrupt)

\* bids: the dict {player_id: amount} as the sequence of its items in insertion order
valid_bids(g, bids) ==
    SelectSeq(bids, LAMBDA b : /\ b.amount > 0
                               /\ g.players[b.pid].cash >= b.amount
                               /\ ~g.players[b.pid].is_bankrupt)

\* max(valid_bids, key=valid_bids.get): the first key, in insertion order, of maximal amount
auction_winner(g, bids) ==
    LET vb == valid_bids(g, bids)
        i == CHOOSE k \in 1 .. Len(vb) :
                /\ \A j \in 1 .. Len(vb) : vb[j].amount <= vb[k].amount
                /\ \A j \in 1 .. (k - 1) : vb[j].amount < vb[k].amount
    IN  IF vb = <<>> THEN [pid |-> NoOwner, amount |-> 0] ELSE vb[i]

auction_property(g, pos, bids) ==
    LET w == auction_winner(g, bids)
    IN  IF w.pid = NoOwner THEN g
        ELSE LET g1 == [g EXCEPT !.players[w.pid] = remove_cash(@, w.amount)]
             IN  emit(assign_property(g1, w.pid, pos), "AUCTION_WON", w.pid, w.amount)

build_house(g, pid, pos) ==
    IF ~can_build_house(g.players[pid], pos, g.bank) THEN g
    ELSE LET pl1 == remove_cash(g.players[pid], PROPERTIES(pos).house_cost)
             pl2 == set_houses(pl1, pos, get_house_count(pl1, pos) + 1)
         IN  emit([g EXCEPT !.players[pid] = pl2, !.bank = buy_house(@)],
                  "HOUSE_BUILT", pid, pos)

build_hotel(g, pid, pos) ==
    IF ~can_build_hotel(g.players[pid], pos, g.bank) THEN g
    ELSE LET pl1 == remove_cash(g.players[pid], PROPERTIES(pos).house_cost)
             pl2 == set_houses(pl1, pos, 5)
         IN  emit([g EXCEPT !.players[pid] = pl2, !.bank = upgrade_to_hotel(@)],
                  "HOTEL_BUILT", pid, pos)

\* sell_house with the bank's stock left as it is
sell_house_keeping_stock(g, pid, pos) ==
    IF ~can_sell_house(g.players[pid], pos) THEN g
    ELSE LET refund == PROPERTIES(pos).house_cost \div 2
             pl1 == add_cash(g.players[pid], refund)
             pl2 == set_houses(pl1, pos, get_house_count(pl1, pos) - 1)
         IN  emit([g EXCEPT !.players[pid] = pl2], "BUILDING_SOLD", pid, pos)

sell_house(g, pid, pos) ==
    IF ~can_sell_house(g.players[pid], pos) THEN g
    ELSE LET refund == PROPERTIES(pos).house_cost \div 2
             pl1 == add_cash(g.players[pid], refund)
             pl2 == set_houses(pl1, pos, get_house_count(pl1, pos) - 1)
         IN  emit([g EXCEPT !.players[pid] = pl2, !.bank = return_house(@)],
                  "BUILDING_SOLD", pid, pos)

sell_hotel(g, pid, pos) ==
    IF get_house_count(g.players[pid], pos) # 5 THEN g
    ELSE LET refund == PROPERTIES(pos).house_cost \div 2
         IN  IF downgrade_from_hotel_ok(g.bank)
             THEN emit([g EXCEPT !.bank = downgrade_from_hotel(@),
                                 !.players[pid] = add_cash(set_houses(@, pos, 4), refund)],
                       "BUILDING_SOLD", pid, pos)
             ELSE emit([g EXCEPT !.players[pid] = add_cash(set_houses(@, pos, 0), refund * 5),
                                 !.bank = return_hotel(@)],
                       "BUILDING_SOLD", pid, pos)

mortgage_property(g, pid, pos) ==
    IF ~can_mortgage(g.players[pid], pos) THEN g
    ELSE emit([g EXCEPT !.players[pid] =
                    player_mortgage_property(add_cash(@, get_mortgage_value(pos)), pos)],
              "PROPERTY_MORTGAGED", pid, pos)

unmortgage_property(g, pid, pos) ==
    IF ~can_unmortgage(g.players[pid], pos) THEN g
    ELSE emit([g EXCEPT !.players[pid] =
                    player_unmortgage_property(remove_cash(@, unmortgage_cost(pos)), pos)],
              "PROPERTY_UNMORTGAGED", pid, pos)

game_send_to_jail(g, pid) ==
    emit([g EXCEPT !.players[pid] = send_to_jail(@)], "PLAYER_JAILED", pid, 0)

\* Deck.return_jail_card / Deck.remove_jail_card (engine/cards.py)
return_jail_card(deck) == [deck EXCEPT !.jail_card_held = FALSE]

remove_jail_card(deck) == [deck EXCEPT !.jail_card_held = TRUE]

IsDoubles(roll) == roll.die1 = roll.die2

RollTotal(roll) == roll.die1 + roll.die2

\* Game.handle_jail_turn; `roll` is what Dice.roll() returns if the action rolls
handle_jail_turn(g, pid, action, roll) ==
    IF ~g.players[pid].in_jail THEN g
    ELSE IF action = "PAY_FINE" THEN
        IF g.players[pid].cash >= JAIL_FINE
        THEN emit([g EXCEPT !.players[pid] = release_from_jail(remove_cash(@, JAIL_FINE))],
                  "PLAYER_FREED", pid, 0)
        ELSE g
    ELSE IF action = "USE_CARD" THEN
        IF g.players[pid].get_out_of_jail_cards > 0
        THEN emit([g EXCEPT !.players[pid] =
                          release_from_jail([@ EXCEPT !.get_out_of_jail_cards = @ - 1]),
                      !.decks.chance = return_jail_card(@),
                      !.decks.community_chest = return_jail_card(@)],
                  "PLAYER_FREED", pid, 0)
        ELSE g
    ELSE \* ROLL_DOUBLES
        LET g1 == roll_dice(g, roll)
            g2 == [g1 EXCEPT !.players[pid].jail_turns = @ + 1]
        IN  IF IsDoubles(roll)
            THEN emit([g2 EXCEPT !.players[pid] = release_from_jail(@)],
                      "PLAYER_FREED", pid, RollTotal(roll))
            ELSE IF g2.players[pid].jail_turns >= MAX_JAIL_TURNS
            THEN emit([g2 EXCEPT !.players[pid] =
                              release_from_jail(remove_cash(@, JAIL_FINE))],
                      "PLAYER_FREED", pid, RollTotal(roll))
            ELSE g2

\* The DiceRoll handle_jail_turn returns (NoRoll for None)
handle_jail_turn_result(g, pid, action, roll) ==
    IF g.players[pid].in_jail /\ action = "ROLL_DOUBLES"
       /\ (IsDoubles(roll) \/ g.players[pid].jail_turns + 1 >= MAX_JAIL_TURNS)
    THEN roll ELSE NoRoll

-----------------------------------------------------------------------------
(* Trade (engine/trade.py and Game.execute_trade) *)

RECURSIVE transfer_properties(_, _, _, _)
\* `for pos in props:` of trade.execute_trade, moving each from `src` to `dst`
transfer_properties(ps, props, src, dst) ==
    IF props = <<>> THEN ps
    ELSE LET pos == Head(props)
             was_mortgaged == is_mortgaged(ps[src], pos)
             ps1 == [ps EXCEPT ![src] = remove_property(@, pos)]
             ps2 == [ps1 EXCEPT ![dst] = add_property(@, pos)]
             ps3 == IF was_mortgaged
                    THEN [ps2 EXCEPT ![dst] =
                            remove_cash(player_mortgage_property(@, pos),
                                        mortgage_transfer_fee(pos))]
                    ELSE ps2
         IN  transfer_properties(ps3, Tail(props), src, dst)

transfer_cash(ps, src, dst, amount) ==
    IF amount > 0
    THEN LET ps1 == [ps EXCEPT ![src] = remove_cash(@, amount)]
         IN  [ps1 EXCEPT ![dst] = add_cash(@, amount)]
    ELSE ps

transfer_jail_cards(ps, src, dst, n) ==
    IF n > 0
    THEN LET ps1 == [ps EXCEPT ![src].get_out_of_jail_cards = @ - n]
         IN  [ps1 EXCEPT ![dst].get_out_of_jail_cards = @ + n]
    ELSE ps

\* trade.execute_trade: the players after the (already validated) trade
trade_execute_trade(ps, proposal) ==
    LET a == proposal.proposer_id
        b == proposal.receiver_id
        ps1 == transfer_properties(ps, proposal.offered_properties, a, b)
        ps2 == transfer_properties(ps1, proposal.requested_properties, b, a)
        ps3 == transfer_cash(ps2, a, b, proposal.offered_cash)
        ps4 == transfer_cash(ps3, b, a, proposal.requested_cash)
        ps5 == transfer_jail_cards(ps4, a, b, proposal.offered_jail_cards)
    IN  transfer_jail_cards(ps5, b, a, proposal.requested_jail_cards)

\* the ownership index after Game.execute_trade's two update loops
trade_update_owners(owners, proposal) ==
    [q \in Purchasable |->
        IF q \in SeqToSet(proposal.requested_properties) THEN proposal.proposer_id
        ELSE IF q \in SeqToSet(proposal.offered_properties) THEN proposal.receiver_id
        ELSE owners[q]]

execute_trade_ok(g, proposal) ==
    validate_trade(proposal, g.players[proposal.proposer_id],
                   g.players[proposal.receiver_id])

execute_trade(g, proposal) ==
    IF ~execute_trade_ok(g, proposal)
    THEN emit(g, "TRADE_REJECTED", proposal.proposer_id, 0)
    ELSE emit([g EXCEPT !.players = trade_execute_trade(@, proposal),
                        !.property_owners = trade_update_owners(@, proposal)],
              "TRADE_ACCEPTED", proposal.proposer_id, 0)

-----------------------------------------------------------------------------
(* Bankruptcy and turn advancement (Game.declare_bankruptcy, Game.advance_turn) *)

\* creditor_id None (no creditor: the debt is to the bank)
None == -1

\* the bankrupt player's fields after the final clearing block
cleared_player(pl) ==
    [pl EXCEPT !.is_bankrupt = TRUE, !.cash = 0, !.get_out_of_jail_cards = 0,
               !.properties = {}, !.houses = [q \in PropertyPositions |-> 0],
               !.mortgaged = {}]

\* creditor branch: every property moves with its mortgaged flag, remove_property
\* drops the buildings, then cash and jail cards are added to the creditor
bankruptcy_to_creditor(g, pid, creditor_id) ==
    LET pl == g.players[pid]
        cr == g.players[creditor_id]
        cr1 == [cr EXCEPT !.properties = @ \cup pl.properties,
                          !.mortgaged = @ \cup (pl.mortgaged \cap pl.properties),
                          !.cash = @ + pl.cash,
                          !.get_out_of_jail_cards = @ + pl.get_out_of_jail_cards]
    IN  [g EXCEPT !.players[creditor_id] = cr1,
                  !.property_owners = [q \in Purchasable |->
                        IF q \in pl.properties THEN creditor_id ELSE @[q]]]

RECURSIVE houses_on(_, _)
\* number of houses (levels 1..4) standing on the positions of `S` for player record pl
houses_on(pl, S) ==
    IF S = {} THEN 0
    ELSE LET q == CHOOSE x \in S : TRUE
         IN  (IF get_house_count(pl, q) = 5 THEN 0 ELSE get_house_count(pl, q))
               + houses_on(pl, S \ {q})

hotels_on(pl, S) == Cardinality({q \in S : get_house_count(pl, q) = 5})

\* bank branch: buildings of every property go back to the bank, ownership is cleared
bankruptcy_to_bank(g, pid) ==
    LET pl == g.players[pid]
        bk1 == return_houses(g.bank, houses_on(pl, pl.properties))
        bk2 == [bk1 EXCEPT !.hotels_available =
                               Min(@ + hotels_on(pl, pl.properties), MAX_HOTELS)]
    IN  [g EXCEPT !.bank = bk2,
                  !.property_owners = [q \in Purchasable |->
                        IF q \in pl.properties THEN NoOwner ELSE @[q]]]

declare_bankruptcy(g, pid, creditor_id) ==
    LET g1 == IF creditor_id # None
              THEN bankruptcy_to_creditor(g, pid, creditor_id)
              ELSE bankruptcy_to_bank(g, pid)
    IN  emit([g1 EXCEPT !.players[pid] = cleared_player(@)], "PLAYER_BANKRUPT", pid, 0)

\* the next seat, bankrupt or not
next_player_without_skip(ps, cur, n) == (cur + 1) % NumPlayers

RECURSIVE next_player(_, _, _)
\* the `for _ in range(len(self.players))` search of advance_turn
next_player(ps, cur, n) ==
    IF n = 0 THEN cur
    ELSE LET nxt == (cur + 1) % NumPlayers
         IN  IF ~ps[nxt].is_bankrupt THEN nxt ELSE next_player(ps, nxt, n - 1)

advance_turn(g) ==
    LET nxt == next_player(g.players, g.current_player_index, NumPlayers)
    IN  emit([g EXCEPT !.turn_number = @ + 1, !.current_player_index = nxt,
                       !.turn_phase = "PRE_ROLL"],
             "TURN_STARTED", nxt, 0)

get_active_players(g) == {p \in PlayerIds : ~g.players[p].is_bankrupt}

is_over(g) == Cardinality(get_active_players(g)) <= 1

-----------------------------------------------------------------------------
(* Cards and decks (engine/cards.py) *)

Card(effect_type, value, destination, target_type, per_house, per_hotel) ==
    [effect_type |-> effect_type, value |-> value, destination |-> destination,
     target_type |-> target_type, per_house |-> per_house, per_hotel |-> per_hotel]

ChanceCards ==
    << Card("ADVANCE_TO", 0, 39, "", 0, 0),
       Card("ADVANCE_TO", 0, 0, "", 0, 0),
       Card("ADVANCE_TO", 0, 24, "", 0, 0),
       Card("ADVANCE_TO", 0, 11, "", 0, 0),
       Card("ADVANCE_TO_NEAREST", 0, -1, "railroad", 0, 0),
       Card("ADVANCE_TO_NEAREST", 0, -1, "railroad", 0, 0),
       Card("ADVANCE_TO_NEAREST", 0, -1, "utility", 0, 0),
       Card("COLLECT", 50, -1, "", 0, 0),
       Card("GET_OUT_OF_JAIL", 0, -1, "", 0, 0),
       Card("GO_BACK", 3, -1, "", 0, 0),
       Card("GO_TO_JAIL", 0, -1, "", 0, 0),
       Card("REPAIRS", 0, -1, "", 25, 100),
       Card("PAY", 15, -1, "", 0, 0),
       Card("ADVANCE_TO", 0, 5, "", 0, 0),
       Card("PAY_EACH_PLAYER", 50, -1, "", 0, 0),
       Card("COLLECT", 150, -1, "", 0, 0) >>

CommunityChestCards ==
    << Card("ADVANCE_TO", 0, 0, "", 0, 0),
       Card("COLLECT", 200, -1, "", 0, 0),
       Card("PAY", 50, -1, "", 0, 0),
       Card("COLLECT", 50, -1, "", 0, 0),
       Card("GET_OUT_OF_JAIL", 0, -1, "", 0, 0),
       Card("GO_TO_JAIL", 0, -1, "", 0, 0),
       Card("COLLECT_FROM_EACH", 50, -1, "", 0, 0),
       Card("COLLECT", 20, -1, "", 0, 0),
       Card("COLLECT_FROM_EACH", 10, -1, "", 0, 0),
       Card("COLLECT", 100, -1, "", 0, 0),
       Card("PAY", 100, -1, "", 0, 0),
       Card("PAY", 50, -1, "", 0, 0),
       Card("COLLECT", 25, -1, "", 0, 0),
       Card("REPAIRS", 0, -1, "", 40, 115),
       Card("COLLECT", 10, -1, "", 0, 0),
       Card("COLLECT", 100, -1, "", 0, 0) >>

DeckCards(name) == IF name = "chance" THEN ChanceCards ELSE CommunityChestCards

\* Deck.__init__: the pile holds every card; the shuffled order is not fixed, so
\* the pile is the set of card indices left and a draw takes any of them
NewDeck(name) == [draw_pile |-> 1 .. Len(DeckCards(name)), jail_card_held |-> FALSE]

\* the pile draw() pops from: refilled, minus a held jail card, when exhausted
pile_for_draw(deck, name) ==
    IF deck.draw_pile = {}
    THEN {i \in 1 .. Len(DeckCards(name)) :
            ~(DeckCards(name)[i].effect_type = "GET_OUT_OF_JAIL" /\ deck.jail_card_held)}
    ELSE deck.draw_pile

\* Deck.draw taking card index c off the pile
draw(deck, name, c) == [deck EXCEPT !.draw_pile = pile_for_draw(deck, name) \ {c}]

-----------------------------------------------------------------------------
(* Landing (Game.process_landing and the handlers it dispatches to) *)

\* LandingResult(space_type, position) with its defaults
LandingResult(space_type, position) ==
    [space_type |-> space_type, position |-> position, requires_buy_decision |-> FALSE,
     rent_owed |-> 0, rent_to_player |-> -1, card_drawn |-> FALSE, tax_amount |-> 0,
     sent_to_jail |-> FALSE]

\* _handle_property_landing / _handle_railroad_landing / _handle_utility_landing
handle_ownable_landing(g, pid, result) ==
    LET pos == g.players[pid].position
        owner_id == get_property_owner(g, pos)
    IN  IF owner_id = NoOwner THEN [result EXCEPT !.requires_buy_decision = TRUE]
        ELSE IF owner_id # pid /\ ~is_mortgaged(g.players[owner_id], pos)
        THEN [result EXCEPT
                 !.rent_owed = calculate_rent(pos, g.players[owner_id], g.last_roll),
                 !.rent_to_player = owner_id]
        ELSE result

handle_tax(g, pid) ==
    LET tax == TaxAmount(g.players[pid].position)
    IN  emit([g EXCEPT !.players[pid] = remove_cash(@, tax)], "TAX_PAID", pid, tax)

RECURSIVE pay_each_player(_, _, _, _)
\* PAY_EACH_PLAYER: `others` is the list of the other non-bankrupt players, in id order
pay_each_player(ps, pid, others, value) ==
    IF others = <<>> THEN ps
    ELSE LET ps1 == [ps EXCEPT ![pid] = remove_cash(@, value)]
             ps2 == [ps1 EXCEPT ![Head(others)] = add_cash(@, value)]
         IN  pay_each_player(ps2, pid, Tail(others), value)

RECURSIVE collect_from_each(_, _, _, _)
collect_from_each(ps, pid, others, value) ==
    IF others = <<>> THEN ps
    ELSE LET ps1 == [ps EXCEPT ![Head(others)] = remove_cash(@, value)]
             ps2 == [ps1 EXCEPT ![pid] = add_cash(@, value)]
         IN  collect_from_each(ps2, pid, Tail(others), value)

RECURSIVE ids_from(_)
ids_from(k) == IF k >= NumPlayers THEN <<>> ELSE <<k>> \o ids_from(k + 1)

other_active_players(g, pid) ==
    SelectSeq(ids_from(0), LAMBDA q : ~g.players[q].is_bankrupt /\ q # pid)

RECURSIVE repairs_cost(_, _, _)
repairs_cost(pl, S, card) ==
    IF S = {} THEN 0
    ELSE LET q == CHOOSE x \in S : TRUE
             houses == get_house_count(pl, q)
         IN  (IF houses = 5 THEN card.per_hotel
              ELSE IF houses > 0 THEN card.per_house * houses ELSE 0)
               + repairs_cost(pl, S \ {q}, card)

RECURSIVE process_landing(_, _, _, _)
RECURSIVE apply_card_effect(_, _, _, _, _, _)

\* _handle_card: draw, record CARD_DRAWN, apply the effect.  `ch` carries what the
\* random sources yield during this landing: ch.c1 the card drawn, ch.c2 the card
\* drawn by a nested landing on a card space, ch.roll the dice of a utility card
handle_card(g, pid, deckname, ch, lvl) ==
    LET c == IF lvl = 1 THEN ch.c1 ELSE ch.c2
        g1 == [g EXCEPT !.decks[deckname] = draw(@, deckname, c)]
        g2 == emit(g1, "CARD_DRAWN", pid, c)
    IN  apply_card_effect(g2, pid, DeckCards(deckname)[c], deckname, ch, lvl)

\* process_landing returns [g: the game afterwards, result: the LandingResult]
process_landing(g, pid, ch, lvl) ==
    LET pos == g.players[pid].position
        st == SpaceType(pos)
        r0 == LandingResult(st, pos)
    IN  IF st \in {"PROPERTY", "RAILROAD", "UTILITY"}
        THEN [g |-> g, result |-> handle_ownable_landing(g, pid, r0)]
        ELSE IF st = "TAX"
        THEN [g |-> handle_tax(g, pid),
              result |-> [r0 EXCEPT !.tax_amount = TaxAmount(pos)]]
        ELSE IF st = "CHANCE"
        THEN [g |-> handle_card(g, pid, "chance", ch, lvl),
              result |-> [r0 EXCEPT !.card_drawn = TRUE]]
        ELSE IF st = "COMMUNITY_CHEST"
        THEN [g |-> handle_card(g, pid, "community_chest", ch, lvl),
              result |-> [r0 EXCEPT !.card_drawn = TRUE]]
        ELSE IF st = "GO_TO_JAIL"
        THEN [g |-> game_send_to_jail(g, pid),
              result |-> [r0 EXCEPT !.sent_to_jail = TRUE]]
        ELSE [g |-> g, result |-> r0]

\* the nested `new_result = self.process_landing(player)` followed by pay_rent
land_again(g, pid, ch, lvl) ==
    LET nr == process_landing(g, pid, ch, lvl + 1)
    IN  IF nr.result.rent_owed > 0
        THEN pay_rent(nr.g, pid, nr.result.rent_to_player, nr.result.rent_owed)
        ELSE nr.g

advance_to_nearest(g, pid, card, ch) ==
    LET target == IF card.target_type = "railroad"
                  THEN get_nearest_railroad(g.players[pid].position)
                  ELSE get_nearest_utility(g.players[pid].position)
        g1 == move_player_to(g, pid, target, TRUE)
        owner_id == get_property_owner(g1, target)
    IN  IF owner_id # NoOwner /\ owner_id # pid
        THEN IF card.target_type = "railroad"
             THEN pay_rent(g1, pid, owner_id,
                           calculate_rent(target, g1.players[owner_id], NoRoll) * 2)
             ELSE pay_rent(roll_dice(g1, ch.roll), pid, owner_id, RollTotal(ch.roll) * 10)
        ELSE g1

apply_card_effect(g, pid, card, deckname, ch, lvl) ==
    LET t == card.effect_type
    IN  IF t = "ADVANCE_TO"
        THEN land_again(move_player_to(g, pid, card.destination, card.destination # 10),
                        pid, ch, lvl)
        ELSE IF t = "ADVANCE_TO_NEAREST" THEN advance_to_nearest(g, pid, card, ch)
        ELSE IF t = "GO_BACK"
        THEN LET new_pos == (g.players[pid].position - card.value) % BOARD_SIZE
                 g1 == [g EXCEPT !.players[pid].position = new_pos]
             IN  land_again(emit(g1, "PLAYER_MOVED", pid, new_pos), pid, ch, lvl)
        ELSE IF t = "COLLECT"
        THEN [g EXCEPT !.players[pid] = add_cash(@, card.value)]
        ELSE IF t = "PAY"
        THEN [g EXCEPT !.players[pid] = remove_cash(@, card.value)]
        ELSE IF t = "PAY_EACH_PLAYER"
        THEN [g EXCEPT !.players =
                    pay_each_player(@, pid, other_active_players(g, pid), card.value)]
        ELSE IF t = "COLLECT_FROM_EACH"
        THEN [g EXCEPT !.players =
                    collect_from_each(@, pid, other_active_players(g, pid), card.value)]
        ELSE IF t = "REPAIRS"
        THEN [g EXCEPT !.players[pid] =
                    remove_cash(@, repairs_cost(@, @.properties, card))]
        ELSE IF t = "GO_TO_JAIL" THEN game_send_to_jail(g, pid)
        ELSE \* GET_OUT_OF_JAIL
            [g EXCEPT !.players[pid].get_out_of_jail_cards = @ + 1,
                      !.decks[deckname] = remove_jail_card(@)]

-----------------------------------------------------------------------------
(* State assignment shared by the specifications *)

SetGame(g) ==
    \E v \in {g} :
        /\ players' = v.players
        /\ bank' = v.bank
        /\ property_owners' = v.property_owners
        /\ current_player_index' = v.current_player_index
        /\ turn_number' = v.turn_number
        /\ turn_phase' = v.turn_phase
        /\ last_roll' = v.last_roll
        /\ events' = v.events
        /\ decks' = v.decks

\* the game record at the start of a step: the step's own events start empty
Now == [Game EXCEPT !.events = <<>>]

NewGame(cashOf) ==
    [players |-> [p \in PlayerIds |-> NewPlayer(cashOf[p])],
     bank |-> [houses_available |-> MAX_HOUSES, hotels_available |-> MAX_HOTELS],
     property_owners |-> [q \in Purchasable |-> NoOwner],
     current_player_index |-> 0, turn_number |-> 0, turn_phase |-> "PRE_ROLL",
     last_roll |-> NoRoll, events |-> <<>>,
     decks |-> [chance |-> NewDeck("chance"),
                community_chest |-> NewDeck("community_chest")]]

NoOrch == [mode |-> "engine"]

\* GameRunner.__init__: control flags and statistics.  `failing` is the set of
\* seats whose agent times out or raises on every call, `emitted` lists the
\* GAME_STARTED, GAME_OVER and AGENT_THOUGHT events the latest step handed to
\* _emit_event, `loop` is run_game's position and `returned_turns` the "turns"
\* entry of what it returned
NewRunner ==
    [running |-> FALSE, paused |-> FALSE, failing |-> {},
     fallback_uses |-> [p \in PlayerIds |-> 0],
     emitted |-> <<>>, loop |-> "idle", returned_turns |-> 0]

NoSrv == [mode |-> "none"]

-----------------------------------------------------------------------------
(* SpecEngine: the engine's public methods called in any order *)

MaxEngineSteps == 2
EngineStartCash == {700, 40}
EnginePositions == {1, 3}
BidAmounts == {70}
RentAmounts == {250}
EngineRolls == {[die1 |-> 1, die2 |-> 2], [die1 |-> 3, die2 |-> 3]}
EngineLandingSpots == {4, 7, 30}
CardChoice == {9, 12, 13, 14, 15}
JailActions == {"PAY_FINE", "USE_CARD", "ROLL_DOUBLES"}

InitGame(g) ==
    /\ players = g.players
    /\ bank = g.bank
    /\ property_owners = g.property_owners
    /\ current_player_index = g.current_player_index
    /\ turn_number = g.turn_number
    /\ turn_phase = g.turn_phase
    /\ last_roll = g.last_roll
    /\ events = g.events
    /\ decks = g.decks

RECURSIVE SetToSeq(_)
\* the elements of a set of positions as a list in ascending order
SetToSeq(S) ==
    IF S = {} THEN <<>>
    ELSE LET m == CHOOSE x \in S : \A y \in S : x <= y
         IN  <<m>> \o SetToSeq(S \ {m})

PropertyLists == {SetToSeq(S) : S \in SUBSET EnginePositions}

\* what a proposal adds to the properties: nothing, the proposer's cash, the
\* receiver's cash, or a jail card
TradeExtras == {<<0, 0, 0>>, <<1, 0, 0>>, <<0, 1, 0>>, <<0, 0, 1>>}

Proposals(g) ==
    {[proposer_id |-> a[1], receiver_id |-> a[2], offered_properties |-> op,
      requested_properties |-> rp, offered_cash |-> x[1], requested_cash |-> x[2],
      offered_jail_cards |-> x[3], requested_jail_cards |-> 0] :
        a \in {y \in PlayerIds \X PlayerIds : y[1] # y[2]}, op \in PropertyLists,
        rp \in PropertyLists, x \in TradeExtras}

\* a proposal whose cash amounts are nothing or the side's whole balance
WithCash(g, t) ==
    [t EXCEPT !.offered_cash = IF @ = 1 THEN g.players[t.proposer_id].cash ELSE 0,
              !.requested_cash = IF @ = 1 THEN g.players[t.receiver_id].cash ELSE 0]

\* the bids dicts: every insertion order of every non-empty set of bidders
BidLists ==
    {b \in UNION {[1 .. n -> [pid : PlayerIds, amount : BidAmounts]] : n \in 1 .. NumPlayers} :
        \A i, j \in 1 .. Len(b) : i # j => b[i].pid # b[j].pid}

\* bid maps that also hold bids of 0
AnyBidLists ==
    {b \in UNION {[1 .. n -> [pid : PlayerIds, amount : {0} \cup BidAmounts]] :
                    n \in 1 .. NumPlayers} :
        \A i, j \in 1 .. Len(b) : i # j => b[i].pid # b[j].pid}

\* A game in progress: who holds which positions, the building levels on them
\* and the cash in hand; the bank's stock is what the buildings leave of it.
RECURSIVE hotels_among(_, _), houses_among(_, _)
hotels_among(lv, S) ==
    IF S = {} THEN 0
    ELSE LET q == CHOOSE x \in S : TRUE
         IN  (IF lv[q] = 5 THEN 1 ELSE 0) + hotels_among(lv, S \ {q})

houses_among(lv, S) ==
    IF S = {} THEN 0
    ELSE LET q == CHOOSE x \in S : TRUE
         IN  (IF lv[q] < 5 THEN lv[q] ELSE 0) + houses_among(lv, S \ {q})

GameInProgress(holder, lv, cashOf, jailCards) ==
    LET g == NewGame(cashOf)
        jc == CHOOSE i \in 1 .. Len(ChanceCards) : ChanceCards[i].effect_type = "GET_OUT_OF_JAIL"
    IN  [g EXCEPT
            !.players = [p \in PlayerIds |->
                [@[p] EXCEPT !.properties = {q \in Purchasable : holder[q] = p},
                             !.houses = [q \in PropertyPositions |->
                                            IF holder[q] = p THEN lv[q] ELSE 0],
                             !.get_out_of_jail_cards = IF p = 0 THEN jailCards ELSE 0]],
            !.property_owners = holder,
            !.bank = [houses_available |-> MAX_HOUSES - houses_among(lv, PropertyPositions),
                      hotels_available |-> MAX_HOTELS - hotels_among(lv, PropertyPositions)],
            !.decks.chance = IF jailCards = 1
                             THEN [draw_pile |-> @.draw_pile \ {jc}, jail_card_held |-> TRUE]
                             ELSE @]

Unowned == [q \in Purchasable |-> NoOwner]
Unbuilt == [q \in PropertyPositions |-> 0]

\* player 0 holds both browns
BrownHeld == [Unowned EXCEPT ![1] = 0, ![3] = 0]

\* ... and player 1 the light blues, pinks and oranges, built up until the
\* bank has two houses left
HousesScarceHeld ==
    [q \in Purchasable |->
        IF q \in {1, 3} THEN 0
        ELSE IF q \in {6, 8, 9, 11, 13, 14, 16, 18, 19} THEN 1 ELSE NoOwner]

HousesScarceLevels ==
    [q \in PropertyPositions |->
        IF q \in {1, 3} THEN 5
        ELSE IF q \in {6, 8, 9, 16, 18, 19} THEN 4
        ELSE IF q \in {11, 13, 14} THEN 2 ELSE 0]

\* a fresh game but for player 1 sitting in jail after two failed rolls
InJail(g) ==
    [g EXCEPT !.players[1] = [send_to_jail(@) EXCEPT !.jail_turns = 2]]

RichAndPoor == [p \in PlayerIds |-> IF p = 0 THEN 700 ELSE 40]

\* every Chance card has been drawn and player 1 stands on the Chance space 7
ChanceExhausted(g) ==
    [g EXCEPT !.decks.chance.draw_pile = {}, !.players[1].position = 7]

EngineSetups ==
    {GameInProgress(Unowned, Unbuilt, cashOf, 0) :
        cashOf \in {[p \in PlayerIds |-> c] : c \in EngineStartCash} \cup {RichAndPoor}}
    \cup {InJail(GameInProgress(Unowned, Unbuilt, RichAndPoor, 1)),
          GameInProgress(BrownHeld, Unbuilt, RichAndPoor, 0),
          GameInProgress(BrownHeld, [Unbuilt EXCEPT ![1] = 4, ![3] = 4], RichAndPoor, 0),
          GameInProgress(HousesScarceHeld, HousesScarceLevels, RichAndPoor, 0)}

EngineInit ==
    /\ \E g \in EngineSetups : InitGame(g)
    /\ pc = "engine"
    /\ orch = NoOrch
    /\ steps = 0
    /\ runner = NewRunner
    /\ srv = NoSrv

EngineStep(g) ==
    /\ pc = "engine"
    /\ steps < MaxEngineSteps
    /\ SetGame(g)
    /\ steps' = steps + 1
    /\ UNCHANGED <<pc, orch, runner, srv>>

Active(p) == ~players[p].is_bankrupt

EngBuyProperty ==
    \E p \in PlayerIds, pos \in EnginePositions :
        Active(p) /\ EngineStep(buy_property(Now, p, pos))

EngAuctionProperty ==
    \E pos \in EnginePositions, bids \in BidLists :
        ~is_property_owned(Now, pos) /\ EngineStep(auction_property(Now, pos, bids))

EngBuildHouse ==
    \E p \in PlayerIds, pos \in EnginePositions :
        Active(p) /\ EngineStep(build_house(Now, p, pos))

EngBuildHotel ==
    \E p \in PlayerIds, pos \in EnginePositions :
        Active(p) /\ EngineStep(build_hotel(Now, p, pos))

EngSellHouse ==
    \E p \in PlayerIds, pos \in EnginePositions :
        Active(p) /\ EngineStep(sell_house(Now, p, pos))

EngSellHotel ==
    \E p \in PlayerIds, pos \in EnginePositions :
        Active(p) /\ EngineStep(sell_hotel(Now, p, pos))

EngMortgage ==
    \E p \in PlayerIds, pos \in EnginePositions :
        Active(p) /\ EngineStep(mortgage_property(Now, p, pos))

EngUnmortgage ==
    \E p \in PlayerIds, pos \in EnginePositions :
        Active(p) /\ EngineStep(unmortgage_property(Now, p, pos))

EngExecuteTrade ==
    \E t \in Proposals(Now) :
        /\ Active(t.proposer_id)
        /\ EngineStep(execute_trade(Now, WithCash(Now, t)))

EngDeclareBankruptcy ==
    \E p \in PlayerIds, c \in PlayerIds \cup {None} :
        /\ Active(p)
        /\ c # p
        /\ c # None => Active(c)
        /\ EngineStep(declare_bankruptcy(Now, p, c))

EngPayRent ==
    \E p \in PlayerIds, o \in PlayerIds, amount \in RentAmounts :
        p # o /\ Active(p) /\ Active(o) /\ EngineStep(pay_rent(Now, p, o, amount))

EngMovePlayerTo ==
    \E p \in PlayerIds, pos \in EngineLandingSpots :
        Active(p) /\ ~players[p].in_jail /\ EngineStep(move_player_to(Now, p, pos, TRUE))

\* process_landing where the player stands; a card space draws card c
EngProcessLanding ==
    \E p \in PlayerIds, c \in CardChoice, roll \in EngineRolls :
        /\ Active(p)
        /\ roll.die1 = 1 \/ SpaceType(players[p].position) \in {"CHANCE", "COMMUNITY_CHEST"}
        /\ SpaceType(players[p].position) = "CHANCE"
                => c \in pile_for_draw(decks.chance, "chance")
        /\ SpaceType(players[p].position) = "COMMUNITY_CHEST"
                => c \in pile_for_draw(decks.community_chest, "community_chest")
        /\ EngineStep(process_landing(Now, p, [c1 |-> c, c2 |-> c, roll |-> roll], 1).g)

EngHandleJailTurn ==
    \E p \in PlayerIds, action \in JailActions, roll \in EngineRolls :
        Active(p) /\ EngineStep(handle_jail_turn(Now, p, action, roll))

\* move_player by a dice total, by a whole lap and by two spaces short of a lap
MoveSpaces == {3, BOARD_SIZE - 2, BOARD_SIZE}

EngMovePlayer ==
    \E p \in PlayerIds, spaces \in MoveSpaces :
        Active(p) /\ EngineStep(move_player(Now, p, spaces))

EngAdvanceTurn ==
    \E g \in {advance_turn(Now)} : EngineStep(g)

EngineNext ==
    \/ EngPayRent
    \/ EngMovePlayerTo
    \/ EngProcessLanding
    \/ EngHandleJailTurn
    \/ EngBuyProperty
    \/ EngAuctionProperty
    \/ EngBuildHouse
    \/ EngBuildHotel
    \/ EngSellHouse
    \/ EngSellHotel
    \/ EngMortgage
    \/ EngUnmortgage
    \/ EngExecuteTrade
    \/ EngDeclareBankruptcy

SpecEngine == EngineInit /\ [][EngineNext]_vars

\* SpecMoves: movement, landing, bankruptcy and the passing of the turn, in
\* any order, also from a game whose Chance pile is exhausted
MovesSetups ==
    EngineSetups \cup {ChanceExhausted(GameInProgress(Unowned, Unbuilt, RichAndPoor, 1))}

MovesInit ==
    /\ \E g \in MovesSetups : InitGame(g)
    /\ pc = "engine"
    /\ orch = NoOrch
    /\ steps = 0
    /\ runner = NewRunner
    /\ srv = NoSrv

MovesNext ==
    \/ EngMovePlayer
    \/ EngAdvanceTurn
    \/ EngDeclareBankruptcy
    \/ EngProcessLanding

SpecMoves == MovesInit /\ [][MovesNext]_vars

\* SpecAuction: auctions with any bid map, between bankruptcies and purchases
EngAuctionAnyBids ==
    \E pos \in EnginePositions, bids \in AnyBidLists :
        ~is_property_owned(Now, pos) /\ EngineStep(auction_property(Now, pos, bids))

AuctionNext ==
    \/ EngAuctionAnyBids
    \/ EngDeclareBankruptcy
    \/ EngBuyProperty

SpecAuction == EngineInit /\ [][AuctionNext]_vars

\* SpecDeeds: building, mortgaging, trading and bankruptcy on the brown
\* group, from an unbuilt monopoly and from one with a first house on 1
DeedsSetups ==
    {GameInProgress(BrownHeld, Unbuilt, RichAndPoor, 0),
     GameInProgress(BrownHeld, [Unbuilt EXCEPT ![1] = 1], RichAndPoor, 0)}

DeedsInit ==
    /\ \E g \in DeedsSetups : InitGame(g)
    /\ pc = "engine"
    /\ orch = NoOrch
    /\ steps = 0
    /\ runner = NewRunner
    /\ srv = NoSrv

DeedsNext ==
    \/ EngBuildHouse
    \/ EngSellHouse
    \/ EngMortgage
    \/ EngUnmortgage
    \/ EngExecuteTrade
    \/ EngDeclareBankruptcy

SpecDeeds == DeedsInit /\ [][DeedsNext]_vars

\* SpecCards: process_landing where a player stands, with every card of
\* either deck, and pay_rent, on a board whose spaces around the Chance
\* spaces 7 and 22 are unowned, held by player 0, or held and mortgaged
CardHeld == {11, 12, 15, 19, 24, 25, 28}
CardSpots == {2, 7, 12, 22}
AllCards == 1 .. Len(ChanceCards)

CardsHeldBy0 == [q \in Purchasable |-> IF q \in CardHeld THEN 0 ELSE NoOwner]

Mortgaged(g) == [g EXCEPT !.players[0].mortgaged = CardHeld]

StandingOn(g, pos) == [g EXCEPT !.players[1].position = pos]

CardsSetups ==
    {StandingOn(g, pos) :
        g \in {GameInProgress(Unowned, Unbuilt, RichAndPoor, 0),
               GameInProgress(CardsHeldBy0, Unbuilt, RichAndPoor, 0),
               Mortgaged(GameInProgress(CardsHeldBy0, Unbuilt, RichAndPoor, 0))},
        pos \in CardSpots}

NoCard == 0

\* the call made last: the operation, the player it was made for, the card
\* drawn by it (NoCard when the space is no card space), the LandingResult
\* returned and the players as they were before the call
LastCall(op, pid, card, result, before) ==
    [mode |-> "cards", op |-> op, player |-> pid, card |-> card, result |-> result,
     before |-> before]

CardsInit ==
    /\ \E g \in CardsSetups : InitGame(g)
    /\ pc = "engine"
    /\ orch = LastCall("none", 0, NoCard, LandingResult("GO", 0), players)
    /\ steps = 0
    /\ runner = NewRunner
    /\ srv = NoSrv

CardsStep(g, call) ==
    /\ pc = "engine"
    /\ steps < MaxEngineSteps
    /\ SetGame(g)
    /\ steps' = steps + 1
    /\ orch' = call
    /\ UNCHANGED <<pc, runner, srv>>

\* the deck a space draws from
DeckOf(pos) ==
    IF SpaceType(pos) = "CHANCE" THEN "chance"
    ELSE IF SpaceType(pos) = "COMMUNITY_CHEST" THEN "community_chest"
    ELSE "none"

\* Game.process_landing(player) where the player stands
CardsProcessLanding ==
    \E p \in PlayerIds, c \in AllCards, roll \in EngineRolls :
        /\ Active(p)
        /\ ~players[p].in_jail
        /\ DeckOf(players[p].position) = "none" => (c = 1 /\ roll.die1 = 1)
        /\ DeckOf(players[p].position) # "none"
                => c \in pile_for_draw(decks[DeckOf(players[p].position)],
                                       DeckOf(players[p].position))
        /\ DeckCards("chance")[c].effect_type # "ADVANCE_TO_NEAREST" => roll.die1 = 1
        /\ \E lr \in {process_landing(Now, p, [c1 |-> c, c2 |-> c, roll |-> roll], 1)} :
              CardsStep(lr.g,
                        LastCall("process_landing", p,
                                 IF DeckOf(players[p].position) = "none" THEN NoCard ELSE c,
                                 lr.result, players))

\* Game.pay_rent(payer, owner_id, amount)
CardsPayRent ==
    \E p \in PlayerIds, o \in PlayerIds, amount \in RentAmounts :
        /\ p # o /\ Active(p) /\ Active(o)
        /\ CardsStep(pay_rent(Now, p, o, amount),
                     LastCall("pay_rent", p, NoCard, LandingResult("GO", 0), players))

\* Game.move_player_to(player, position) onto one of the spots
CardsMovePlayerTo ==
    \E p \in PlayerIds, pos \in CardSpots :
        /\ Active(p) /\ ~players[p].in_jail
        /\ CardsStep(move_player_to(Now, p, pos, TRUE),
                     LastCall("move_player_to", p, NoCard, LandingResult("GO", 0), players))

CardsNext == CardsProcessLanding \/ CardsPayRent \/ CardsMovePlayerTo

SpecCards == CardsInit /\ [][CardsNext]_vars

-----------------------------------------------------------------------------
(* SpecRunner: GameRunner._run_turn, one action per phase of the turn *)

MaxTurns == 2
RunnerRolls == {[die1 |-> 1, die2 |-> 2], [die1 |-> 2, die2 |-> 2], [die1 |-> 3, die2 |-> 3]}

\* what an agent may return from decide_pre_roll / decide_post_roll
NoAction == [trades |-> <<>>, builds |-> <<>>, mortgages |-> <<>>, unmortgages |-> <<>>]

GiveAway(pid, pos) ==
    [proposer_id |-> pid, receiver_id |-> (pid + 1) % NumPlayers,
     offered_properties |-> <<pos>>, requested_properties |-> <<>>,
     offered_cash |-> 0, requested_cash |-> 0,
     offered_jail_cards |-> 0, requested_jail_cards |-> 0]

PhaseActions(pid) ==
    {NoAction,
     [NoAction EXCEPT !.builds = <<[position |-> 1, build_hotel |-> FALSE]>>],
     [NoAction EXCEPT !.builds = <<[position |-> 1, build_hotel |-> TRUE]>>],
     [NoAction EXCEPT !.mortgages = <<3>>],
     [NoAction EXCEPT !.unmortgages = <<3>>],
     [NoAction EXCEPT !.trades = <<GiveAway(pid, 3)>>]}

\* the seats whose agent calls time out or raise
FailingSeats == {{}, {0}, PlayerIds}

\* RandomAgent, the fallback of every seat (its pre- and post-roll answer is
\* NoAction and it rejects every trade)
fallback_decide_jail_action(g, pid) ==
    IF g.players[pid].get_out_of_jail_cards > 0 THEN "USE_CARD"
    ELSE IF g.players[pid].cash >= 50 THEN "PAY_FINE"
    ELSE "ROLL_DOUBLES"

fallback_decide_buy_or_auction(g, pid, pos) ==
    g.players[pid].cash >= get_purchase_price(pos) * 2

fallback_decide_auction_bid(g, pid, pos, current_bid) ==
    IF current_bid < get_purchase_price(pos) /\ g.players[pid].cash >= get_purchase_price(pos)
    THEN current_bid + 10
    ELSE 0

\* _record_fallback without the counter increment
record_fallback_uncounted(r, pid) ==
    [r EXCEPT !.emitted = Append(@, [event_type |-> "AGENT_THOUGHT", player_id |-> pid,
                                     reason |-> "[FALLBACK]"])]

\* GameRunner._record_fallback
record_fallback(r, pid) ==
    [r EXCEPT !.fallback_uses[pid] = @ + 1,
              !.emitted = Append(@, [event_type |-> "AGENT_THOUGHT", player_id |-> pid,
                                     reason |-> "[FALLBACK]"])]

\* one _record_fallback per failed call, in call order
RECURSIVE record_fallbacks(_, _)
record_fallbacks(r, pids) ==
    IF pids = <<>> THEN r
    ELSE record_fallbacks(record_fallback(r, Head(pids)), Tail(pids))

\* GameRunner._handle_trade_proposal: the receiver's answer decides; a receiver
\* whose call fails answers through the fallback, which rejects
RECURSIVE handle_trade_proposals(_, _, _, _)
handle_trade_proposals(g, trades, accepted, failing) ==
    IF trades = <<>> THEN g
    ELSE LET answer == IF Head(trades).receiver_id \in failing THEN FALSE ELSE accepted
         IN  handle_trade_proposals(IF answer THEN execute_trade(g, Head(trades)) ELSE g,
                                    Tail(trades), accepted, failing)

\* the seats whose respond_to_trade call failed, in call order
RECURSIVE trade_fallbacks(_, _)
trade_fallbacks(trades, failing) ==
    IF trades = <<>> THEN <<>>
    ELSE (IF Head(trades).receiver_id \in failing THEN <<Head(trades).receiver_id>>
          ELSE <<>>) \o trade_fallbacks(Tail(trades), failing)

\* GameRunner._handle_build
RECURSIVE handle_builds(_, _, _)
handle_builds(g, pid, builds) ==
    IF builds = <<>> THEN g
    ELSE LET b == Head(builds)
             g1 == IF b.build_hotel THEN build_hotel(g, pid, b.position)
                   ELSE build_house(g, pid, b.position)
         IN  handle_builds(g1, pid, Tail(builds))

RECURSIVE handle_mortgages(_, _, _)
handle_mortgages(g, pid, positions) ==
    IF positions = <<>> THEN g
    ELSE handle_mortgages(mortgage_property(g, pid, Head(positions)), pid, Tail(positions))

RECURSIVE handle_unmortgages(_, _, _)
handle_unmortgages(g, pid, positions) ==
    IF positions = <<>> THEN g
    ELSE handle_unmortgages(unmortgage_property(g, pid, Head(positions)), pid,
                            Tail(positions))

\* GameRunner._execute_phase_action: trades, builds, mortgages, unmortgages in turn
execute_phase_action(g, pid, action, accepted, failing) ==
    LET g1 == handle_trade_proposals(g, action.trades, accepted, failing)
        g2 == handle_builds(g1, pid, action.builds)
        g3 == handle_mortgages(g2, pid, action.mortgages)
    IN  handle_unmortgages(g3, pid, action.unmortgages)

\* GameRunner._handle_pre_roll_phase and _handle_post_roll_phase: the agent's
\* bundle, or the fallback's empty bundle when the call fails
handle_phase(g, pid, action, accepted, failing) ==
    execute_phase_action(g, pid, IF pid \in failing THEN NoAction ELSE action,
                         accepted, failing)

phase_fallbacks(pid, action, failing) ==
    IF pid \in failing THEN <<pid>> ELSE trade_fallbacks(action.trades, failing)

\* GameRunner._handle_auction: the active players are asked in list order and a
\* bid is entered only if it beats the highest so far; bidOf[p] is p's answer
RECURSIVE collect_bids(_, _, _, _, _, _)
collect_bids(g, bidOf, p, bids, pos, failing) ==
    IF p >= NumPlayers THEN bids
    ELSE LET current_bid == IF bids = <<>> THEN 0 ELSE bids[Len(bids)].amount
             bid == IF p \in failing
                    THEN fallback_decide_auction_bid(g, p, pos, current_bid)
                    ELSE bidOf[p]
             entered == ~g.players[p].is_bankrupt /\ bid > current_bid
         IN  collect_bids(g, bidOf, p + 1,
                          IF entered THEN Append(bids, [pid |-> p, amount |-> bid])
                          ELSE bids,
                          pos, failing)

\* (the comprehension over a singleton evaluates the collected bids once)
runner_handle_auction(g, pos, bidOf, failing) ==
    CHOOSE after \in {IF bids # <<>> THEN auction_property(g, pos, bids) ELSE g :
                        bids \in {collect_bids(g, bidOf, 0, <<>>, pos, failing)}} : TRUE

\* the seats whose decide_auction_bid call failed, in call order
RECURSIVE auction_fallbacks(_, _, _)
auction_fallbacks(g, p, failing) ==
    IF p >= NumPlayers THEN <<>>
    ELSE (IF ~g.players[p].is_bankrupt /\ p \in failing THEN <<p>> ELSE <<>>)
         \o auction_fallbacks(g, p + 1, failing)

\* GameRunner._handle_buy_decision
handle_buy_decision(g, pid, pos, should_buy, bidOf, failing) ==
    LET answer == IF pid \in failing THEN fallback_decide_buy_or_auction(g, pid, pos)
                  ELSE should_buy
    IN  IF answer THEN buy_property(g, pid, pos)
        ELSE runner_handle_auction(g, pos, bidOf, failing)

buy_fallbacks(g, pid, pos, should_buy, failing) ==
    LET answer == IF pid \in failing THEN fallback_decide_buy_or_auction(g, pid, pos)
                  ELSE should_buy
    IN  (IF pid \in failing THEN <<pid>> ELSE <<>>)
        \o (IF answer THEN <<>> ELSE auction_fallbacks(g, 0, failing))

\* GameRunner._handle_landing: process_landing, then the buy decision; rent, tax
\* and jailing are only announced on the event bus
runner_handle_landing(g, pid, ch, should_buy, bidOf, failing) ==
    LET lr == process_landing(g, pid, ch, 1)
    IN  IF lr.result.requires_buy_decision
        THEN handle_buy_decision(lr.g, pid, lr.result.position, should_buy, bidOf, failing)
        ELSE lr.g

landing_fallbacks(g, pid, ch, should_buy, failing) ==
    LET lr == process_landing(g, pid, ch, 1)
    IN  IF lr.result.requires_buy_decision
        THEN buy_fallbacks(lr.g, pid, lr.result.position, should_buy, failing)
        ELSE <<>>

\* GameRunner._emit_event: the event the runner hands to its bus (type and player)
emit_event(event_type, player_id) == [event_type |-> event_type, player_id |-> player_id]

\* the events _run_turn announces around the roll: DICE_ROLLED, then PASSED_GO
\* when move_player returned True
roll_announcements(g, pid, spaces) ==
    <<emit_event("DICE_ROLLED", pid)>>
    \o (IF move_forward_passed_go(g.players[pid], spaces)
        THEN <<emit_event("PASSED_GO", pid)>> ELSE <<>>)

\* the events _handle_jail_turn announces: PLAYER_FREED when the player is out
jail_announcements(g1, pid) ==
    IF ~g1.players[pid].in_jail THEN <<emit_event("PLAYER_FREED", pid)>> ELSE <<>>

RECURSIVE bid_announcements(_)
bid_announcements(bids) ==
    IF bids = <<>> THEN <<>>
    ELSE <<emit_event("AUCTION_BID", Head(bids).pid)>> \o bid_announcements(Tail(bids))

\* the events _handle_auction announces: AUCTION_STARTED, one AUCTION_BID per
\* bid entered, AUCTION_WON when auction_property returned a winner
auction_announcements(g, pos, bidOf, failing) ==
    CHOOSE a \in {<<emit_event("AUCTION_STARTED", -1)>> \o bid_announcements(bids)
                  \o (IF bids # <<>> /\ auction_winner(g, bids).pid # NoOwner
                      THEN <<emit_event("AUCTION_WON", auction_winner(g, bids).pid)>>
                      ELSE <<>>) :
                    bids \in {collect_bids(g, bidOf, 0, <<>>, pos, failing)}} : TRUE

\* the events _handle_buy_decision announces: PROPERTY_PURCHASED when
\* buy_property succeeded, the auction's events when the answer was to auction
buy_announcements(g, pid, pos, should_buy, bidOf, failing) ==
    LET answer == IF pid \in failing THEN fallback_decide_buy_or_auction(g, pid, pos)
                  ELSE should_buy
    IN  IF answer
        THEN IF get_property_owner(buy_property(g, pid, pos), pos) = pid
             THEN <<emit_event("PROPERTY_PURCHASED", pid)>> ELSE <<>>
        ELSE auction_announcements(g, pos, bidOf, failing)

\* the events _handle_landing announces: PLAYER_MOVED after process_landing,
\* the buy decision's events, then RENT_PAID, TAX_PAID and PLAYER_JAILED as the
\* landing result has rent_owed, tax_amount and sent_to_jail
landing_announcements(lr, pid, should_buy, bidOf, failing) ==
    <<emit_event("PLAYER_MOVED", pid)>>
    \o (IF lr.result.requires_buy_decision
        THEN buy_announcements(lr.g, pid, lr.result.position, should_buy, bidOf, failing)
        ELSE <<>>)
    \o (IF lr.result.rent_owed > 0 THEN <<emit_event("RENT_PAID", pid)>> ELSE <<>>)
    \o (IF lr.result.tax_amount > 0 THEN <<emit_event("TAX_PAID", pid)>> ELSE <<>>)
    \o (IF lr.result.sent_to_jail THEN <<emit_event("PLAYER_JAILED", pid)>> ELSE <<>>)

\* the orchestrator's position in _run_turn and what the turn has seen so far
NewTurn ==
    [mode |-> "runner", rolled |-> FALSE, doubles_run |-> 0, advanced_after |-> "none",
     rent_owed |-> 0, rent_to_player |-> NoOwner, tax_owed |-> 0,
     payer_cash |-> 0, owner_cash |-> 0, paid |-> 0,
     landings |-> 0, post_rolls |-> 0, jail_decisions |-> 0,
     bankruptcy_declared |-> FALSE, freed_roll |-> NoRoll,
     announced |-> <<>>, logged |-> <<>>]

RunnerSetups ==
    {NewGame([p \in PlayerIds |-> STARTING_CASH]),
     GameInProgress(BrownHeld, Unbuilt, RichAndPoor, 0),
     GameInProgress(BrownHeld, [Unbuilt EXCEPT ![1] = 4, ![3] = 4], RichAndPoor, 0),
     InJail(GameInProgress(Unowned, Unbuilt, RichAndPoor, 1))}

RunnerInit ==
    /\ \E g \in RunnerSetups : InitGame(g)
    /\ pc = "start"
    /\ orch = NewTurn
    /\ steps = 0
    /\ \E f \in FailingSeats : runner = [NewRunner EXCEPT !.failing = f]
    /\ srv = NoSrv

CurrentPlayer == current_player_index

\* the cards the player standing on a card space may draw (one arbitrary card
\* elsewhere, where none is drawn)
DrawChoices(pid) ==
    IF SpaceType(players[pid].position) = "CHANCE"
    THEN CardChoice \cap pile_for_draw(decks.chance, "chance")
    ELSE IF SpaceType(players[pid].position) = "COMMUNITY_CHEST"
    THEN CardChoice \cap pile_for_draw(decks.community_chest, "community_chest")
    ELSE {9}

\* the answers the seat's agent may give: none when its calls fail
AgentAnswers(pid, answers, none) == IF pid \in runner.failing THEN {none} ELSE answers

\* the head of _run_turn: a bankrupt player's turn is passed over, a jailed
\* player goes through _handle_jail_turn and the turn ends if still in jail
RunStartTurn ==
    /\ pc = "start"
    /\ turn_number < MaxTurns
    /\ ~players[CurrentPlayer].in_jail
    /\ IF players[CurrentPlayer].is_bankrupt
       THEN /\ SetGame(advance_turn(Now))
            /\ orch' = [NewTurn EXCEPT !.advanced_after = "bankrupt"]
            /\ UNCHANGED pc
       ELSE /\ pc' = "pre_roll"
            /\ orch' = [NewTurn EXCEPT
                   !.announced = <<emit_event("TURN_STARTED", CurrentPlayer)>>]
            /\ UNCHANGED <<players, bank, property_owners, current_player_index,
                           turn_number, turn_phase, last_roll, events, decks>>
    /\ UNCHANGED steps
    /\ UNCHANGED <<runner, srv>>

RunJailTurn ==
    /\ pc = "start"
    /\ turn_number < MaxTurns
    /\ ~players[CurrentPlayer].is_bankrupt
    /\ players[CurrentPlayer].in_jail
    /\ \E answer \in AgentAnswers(CurrentPlayer, JailActions, "ROLL_DOUBLES"),
          roll \in RunnerRolls :
        LET failed == CurrentPlayer \in runner.failing
            action == IF failed THEN fallback_decide_jail_action(Now, CurrentPlayer)
                      ELSE answer
            g1 == handle_jail_turn(Now, CurrentPlayer, action, roll)
        IN  /\ runner' = record_fallbacks([runner EXCEPT !.emitted = <<>>],
                                          IF failed THEN <<CurrentPlayer>> ELSE <<>>)
            /\ IF g1.players[CurrentPlayer].in_jail
               THEN /\ SetGame(advance_turn(g1))
                    /\ pc' = "start"
                    /\ orch' = [NewTurn EXCEPT
                           !.advanced_after = "jail",
                           !.announced = <<emit_event("TURN_STARTED", CurrentPlayer)>>
                                         \o jail_announcements(g1, CurrentPlayer),
                           !.logged = g1.events]
               ELSE /\ SetGame(g1)
                    /\ pc' = "pre_roll"
                    /\ orch' = [NewTurn EXCEPT
                           !.announced = <<emit_event("TURN_STARTED", CurrentPlayer)>>
                                         \o jail_announcements(g1, CurrentPlayer),
                           !.logged = g1.events,
                           !.jail_decisions = 1,
                           !.freed_roll = handle_jail_turn_result(Now, CurrentPlayer,
                                                                  action, roll)]
    /\ UNCHANGED <<steps, srv>>

RunPreRoll ==
    /\ pc = "pre_roll"
    /\ pc' = "roll"
    /\ \E action \in AgentAnswers(CurrentPlayer, PhaseActions(CurrentPlayer), NoAction),
          accepted \in BOOLEAN :
        /\ accepted \/ action.trades # <<>>
        /\ SetGame(handle_phase([Now EXCEPT !.turn_phase = "PRE_ROLL"],
                                CurrentPlayer, action, accepted, runner.failing))
        /\ runner' = record_fallbacks([runner EXCEPT !.emitted = <<>>],
                                      phase_fallbacks(CurrentPlayer, action,
                                                      runner.failing))
    /\ UNCHANGED <<orch, steps, srv>>

RunRoll ==
    /\ pc = "roll"
    /\ pc' = "landed"
    /\ \E roll \in RunnerRolls :
        /\ SetGame(move_player(roll_dice([Now EXCEPT !.turn_phase = "ROLL"], roll),
                               CurrentPlayer, RollTotal(roll)))
        /\ orch' = [orch EXCEPT !.rolled = TRUE,
                                !.doubles_run = IF IsDoubles(roll) THEN @ + 1 ELSE 0,
                                !.announced = @ \o roll_announcements(Now, CurrentPlayer,
                                                                      RollTotal(roll)),
                                !.logged = @ \o events']
    /\ UNCHANGED steps
    /\ UNCHANGED <<runner, srv>>

\* the answers asked for after a landing: none unless a buy decision is due
BuyAnswers(lr, pid) ==
    IF lr.result.requires_buy_decision THEN AgentAnswers(pid, BOOLEAN, FALSE) ELSE {FALSE}

BidAnswers(lr) ==
    IF lr.result.requires_buy_decision THEN [PlayerIds -> {0} \cup BidAmounts]
    ELSE {[p \in PlayerIds |-> 0]}

RunLanded ==
    /\ pc = "landed"
    /\ pc' = "post_roll"
    /\ \E c \in DrawChoices(CurrentPlayer) :
        LET g0 == [Now EXCEPT !.turn_phase = "LANDED"]
            pid == CurrentPlayer
            ch == [c1 |-> c, c2 |-> c, roll |-> last_roll]
        IN  \E lr \in {process_landing(g0, pid, ch, 1)} :
            \E should_buy \in BuyAnswers(lr, pid), bidOf \in BidAnswers(lr) :
            /\ SetGame(runner_handle_landing(g0, pid, ch, should_buy, bidOf,
                                              runner.failing))
            /\ runner' = record_fallbacks([runner EXCEPT !.emitted = <<>>],
                                          landing_fallbacks(g0, pid, ch, should_buy,
                                                            runner.failing))
            /\ orch' = [orch EXCEPT
                    !.announced = @ \o landing_announcements(lr, pid, should_buy, bidOf,
                                                               runner.failing),
                    !.logged = @ \o events',
                    !.landings = @ + 1,
                    !.rent_owed = lr.result.rent_owed,
                    !.rent_to_player = lr.result.rent_to_player,
                    !.tax_owed = lr.result.tax_amount,
                    !.payer_cash = players[pid].cash,
                    !.paid = IF lr.result.tax_amount > 0
                             THEN players[pid].cash - lr.g.players[pid].cash ELSE 0,
                    !.owner_cash = IF lr.result.rent_to_player \in PlayerIds
                                   THEN players[lr.result.rent_to_player].cash ELSE 0]
    /\ UNCHANGED <<steps, srv>>

RunPostRoll ==
    /\ pc = "post_roll"
    /\ pc' = "end"
    /\ \E action \in AgentAnswers(CurrentPlayer, PhaseActions(CurrentPlayer), NoAction),
          accepted \in BOOLEAN :
        /\ accepted \/ action.trades # <<>>
        /\ SetGame(handle_phase([Now EXCEPT !.turn_phase = "POST_ROLL"],
                                CurrentPlayer, action, accepted, runner.failing))
        /\ runner' = record_fallbacks([runner EXCEPT !.emitted = <<>>],
                                      phase_fallbacks(CurrentPlayer, action,
                                                      runner.failing))
    /\ orch' = [orch EXCEPT !.post_rolls = @ + 1]
    /\ UNCHANGED <<steps, srv>>

\* the unconditional `self.game.advance_turn()` that closes _run_turn
RunAdvance ==
    /\ pc = "end"
    /\ pc' = "start"
    /\ SetGame(advance_turn(Now))
    /\ orch' = [orch EXCEPT !.advanced_after = "roll"]
    /\ UNCHANGED steps
    /\ UNCHANGED <<runner, srv>>

RunnerNext ==
    \/ RunStartTurn
    \/ RunJailTurn
    \/ RunPreRoll
    \/ RunRoll
    \/ RunLanded
    \/ RunPostRoll
    \/ RunAdvance

SpecRunner == RunnerInit /\ [][RunnerNext]_vars

-----------------------------------------------------------------------------
(* SpecRunGame: GameRunner.run_game around the turn of SpecRunner, with the   *)
(* control calls pause / resume / stop arriving between any two steps.        *)
(* run_game is called with max_turns = MaxTurns; pc = "start" is the head of  *)
(* its while loop.                                                            *)

RunnerEvent(event_type, reason) ==
    [event_type |-> event_type, player_id |-> -1, reason |-> reason]

\* a runner just constructed, on a new game or on one with a player in jail
RunGameInit ==
    /\ \E g \in {NewGame([p \in PlayerIds |-> STARTING_CASH]),
                  InJail(GameInProgress(Unowned, Unbuilt, RichAndPoor, 1))} : InitGame(g)
    /\ pc = "start"
    /\ orch = NewTurn
    /\ steps = 0
    /\ \E f \in FailingSeats : runner = [NewRunner EXCEPT !.failing = f]
    /\ srv = NoSrv

\* run_game up to its loop: the running flag is set and GAME_STARTED emitted
RunGameEnter ==
    /\ runner.loop = "idle"
    /\ runner' = [runner EXCEPT !.running = TRUE, !.loop = "looping",
                                !.emitted = <<RunnerEvent("GAME_STARTED", "")>>]
    /\ UNCHANGED <<players, bank, property_owners, current_player_index, turn_number,
                   turn_phase, last_roll, events, decks, pc, orch, steps, srv>>

\* the loop condition with `<=` for `<`
loop_condition_inclusive(g, max_turns) ==
    ~is_over(g) /\ g.turn_number <= max_turns

\* `while not self.game.is_over() and self.game.turn_number < max_turns`
loop_condition(g, max_turns) ==
    ~is_over(g) /\ g.turn_number < max_turns

\* the loop entering _run_turn without the `if self._paused` test
RunGameTurnIgnoringPause ==
    /\ runner.loop = "looping"
    /\ loop_condition(Now, MaxTurns)
    /\ (RunStartTurn \/ RunJailTurn)

\* the loop condition holds and the runner is not paused: _run_turn is entered
RunGameTurn ==
    /\ runner.loop = "looping"
    /\ loop_condition(Now, MaxTurns)
    /\ ~runner.paused
    /\ (RunStartTurn \/ RunJailTurn)

\* the same loop head while paused: `await asyncio.sleep(0.1); continue`
RunGameSleep ==
    /\ runner.loop = "looping"
    /\ pc = "start"
    /\ loop_condition(Now, MaxTurns)
    /\ runner.paused
    /\ UNCHANGED vars

\* GAME_OVER emitted and the result returned at any loop head, the loop
\* condition holding or not
RunGameReturnAtAnyLoopHead ==
    /\ runner.loop = "looping"
    /\ pc = "start"
    /\ runner' = [runner EXCEPT
            !.running = FALSE, !.loop = "returned", !.returned_turns = turn_number,
            !.emitted = <<RunnerEvent("GAME_OVER",
                                      IF is_over(Now) THEN "completed"
                                      ELSE "max_turns_reached")>>]
    /\ UNCHANGED <<players, bank, property_owners, current_player_index, turn_number,
                   turn_phase, last_roll, events, decks, pc, orch, steps, srv>>

\* the loop condition fails: GAME_OVER is emitted, the result returned and the
\* `finally` clause clears the running flag
RunGameReturn ==
    /\ runner.loop = "looping"
    /\ pc = "start"
    /\ ~loop_condition(Now, MaxTurns)
    /\ runner' = [runner EXCEPT
            !.running = FALSE, !.loop = "returned", !.returned_turns = turn_number,
            !.emitted = <<RunnerEvent("GAME_OVER",
                                      IF is_over(Now) THEN "completed"
                                      ELSE "max_turns_reached")>>]
    /\ UNCHANGED <<players, bank, property_owners, current_player_index, turn_number,
                   turn_phase, last_roll, events, decks, pc, orch, steps, srv>>

\* GameRunner.pause, called while run_game is running or after it returned
Pause ==
    /\ runner.loop \in {"looping", "returned"}
    /\ runner' = [runner EXCEPT !.paused = TRUE,
                                !.emitted = <<RunnerEvent("GAME_OVER", "paused")>>]
    /\ UNCHANGED <<players, bank, property_owners, current_player_index, turn_number,
                   turn_phase, last_roll, events, decks, pc, orch, steps, srv>>

\* GameRunner.resume
Resume ==
    /\ runner.loop \in {"looping", "returned"}
    /\ runner' = [runner EXCEPT !.paused = FALSE, !.emitted = <<>>]
    /\ UNCHANGED <<players, bank, property_owners, current_player_index, turn_number,
                   turn_phase, last_roll, events, decks, pc, orch, steps, srv>>

\* GameRunner.stop, called while the running flag is set
Stop ==
    /\ runner.running
    /\ runner' = [runner EXCEPT !.running = FALSE, !.paused = FALSE, !.emitted = <<>>]
    /\ UNCHANGED <<players, bank, property_owners, current_player_index, turn_number,
                   turn_phase, last_roll, events, decks, pc, orch, steps, srv>>

\* the steps of the task that runs run_game
RunGameTask ==
    \/ RunGameEnter
    \/ RunGameTurn
    \/ RunGameReturn
    \/ RunPreRoll
    \/ RunRoll
    \/ RunLanded
    \/ RunPostRoll
    \/ RunAdvance

RunGameNext ==
    \/ RunGameEnter
    \/ RunGameTurn
    \/ RunGameSleep
    \/ RunGameReturn
    \/ RunPreRoll
    \/ RunRoll
    \/ RunLanded
    \/ RunPostRoll
    \/ RunAdvance
    \/ Pause
    \/ Resume
    \/ Stop

SpecRunGame == RunGameInit /\ [][RunGameNext]_vars

\* the event loop runs the task whenever it can take a step
SpecRunGameFair == SpecRunGame /\ WF_vars(RunGameTask)

-----------------------------------------------------------------------------
(* SpecTurnManager: one TurnManager.execute_turn call, one action per phase *)

MaxRounds == 5

\* what an agent may return from decide_bankruptcy_resolution
BankruptcyActions ==
    {[sell_houses |-> <<>>, sell_hotels |-> <<>>, mortgage |-> <<>>],
     [sell_houses |-> <<1>>, sell_hotels |-> <<>>, mortgage |-> <<>>],
     [sell_houses |-> <<>>, sell_hotels |-> <<>>, mortgage |-> <<3>>]}

TMPhaseActions(pid) ==
    {NoAction,
     [NoAction EXCEPT !.builds = <<[position |-> 1, build_hotel |-> FALSE]>>],
     [NoAction EXCEPT !.mortgages = <<3>>],
     [NoAction EXCEPT !.trades = <<GiveAway(pid, 3)>>]}

RECURSIVE tm_execute_trades(_, _)
tm_execute_trades(g, trades) ==
    IF trades = <<>> THEN g
    ELSE tm_execute_trades(execute_trade(g, Head(trades)), Tail(trades))

\* the body shared by _handle_pre_roll_phase and _handle_post_roll_phase:
\* builds, mortgages, unmortgages, then trades
tm_phase_action(g, pid, action) ==
    LET g1 == handle_builds(g, pid, action.builds)
        g2 == handle_mortgages(g1, pid, action.mortgages)
        g3 == handle_unmortgages(g2, pid, action.unmortgages)
    IN  tm_execute_trades(g3, action.trades)

RECURSIVE sell_houses_each(_, _, _)
sell_houses_each(g, pid, positions) ==
    IF positions = <<>> THEN g
    ELSE sell_houses_each(sell_house(g, pid, Head(positions)), pid, Tail(positions))

RECURSIVE sell_hotels_each(_, _, _)
sell_hotels_each(g, pid, positions) ==
    IF positions = <<>> THEN g
    ELSE sell_hotels_each(sell_hotel(g, pid, Head(positions)), pid, Tail(positions))

\* TurnManager._handle_bankruptcy
tm_handle_bankruptcy(g, pid, action, amount_owed, creditor_id) ==
    LET g1 == sell_houses_each(g, pid, action.sell_houses)
        g2 == sell_hotels_each(g1, pid, action.sell_hotels)
        g3 == handle_mortgages(g2, pid, action.mortgage)
    IN  IF g3.players[pid].cash >= amount_owed
        THEN IF creditor_id # None THEN pay_rent(g3, pid, creditor_id, amount_owed)
             ELSE [g3 EXCEPT !.players[pid] = remove_cash(@, amount_owed)]
        ELSE declare_bankruptcy(g3, pid, creditor_id)

\* TurnManager._handle_landed_phase
tm_handle_landed(g, pid, ch, should_buy, baction) ==
    LET lr == process_landing([g EXCEPT !.turn_phase = "LANDED"], pid, ch, 1)
        g1 == IF lr.result.requires_buy_decision
              THEN IF should_buy THEN buy_property(lr.g, pid, lr.g.players[pid].position)
                   ELSE emit(lr.g, "AUCTION_STARTED", -1, lr.g.players[pid].position)
              ELSE lr.g
    IN  IF lr.result.rent_owed > 0
        THEN IF g1.players[pid].cash >= lr.result.rent_owed
             THEN pay_rent(g1, pid, lr.result.rent_to_player, lr.result.rent_owed)
             ELSE tm_handle_bankruptcy(g1, pid, baction, lr.result.rent_owed,
                                       lr.result.rent_to_player)
        ELSE g1

\* TurnManager.__init__, and what this execute_turn call has done so far:
\* `after_third` lists the phases run since a third consecutive double was rolled
NewTurnManager(pid) ==
    [mode |-> "turn_manager", player |-> pid, consecutive_doubles |-> 0,
     rolled_this_turn |-> FALSE, rounds |-> 0, third_double |-> FALSE,
     after_third |-> <<>>]

AfterThird(o, phase) ==
    IF o.third_double THEN [o EXCEPT !.after_third = Append(@, phase)] ELSE o

TMInit ==
    /\ \E g \in RunnerSetups : InitGame(g)
    /\ \E pid \in PlayerIds : orch = NewTurnManager(pid)
    /\ pc = "enter"
    /\ steps = 0
    /\ runner = NewRunner
    /\ srv = NoSrv

TMPlayer == orch.player

\* execute_turn entered by a player in jail: _handle_jail_turn
TMEnterJailed ==
    /\ pc = "enter"
    /\ orch.rounds < MaxRounds
    /\ players[TMPlayer].in_jail
    /\ \E action \in JailActions, roll \in RunnerRolls :
        LET g1 == handle_jail_turn(Now, TMPlayer, action, roll)
            result == handle_jail_turn_result(Now, TMPlayer, action, roll)
            o1 == [orch EXCEPT !.rounds = @ + 1,
                               !.rolled_this_turn = result # NoRoll /\ IsDoubles(result)]
        IN  /\ orch' = AfterThird(o1, "JAIL_DECISION")
            /\ IF g1.players[TMPlayer].in_jail
               THEN SetGame([g1 EXCEPT !.turn_phase = "END_TURN"]) /\ pc' = "done"
               ELSE SetGame(g1) /\ pc' = "pre_roll"
    /\ UNCHANGED steps
    /\ UNCHANGED <<runner, srv>>

TMEnterFree ==
    /\ pc = "enter"
    /\ orch.rounds < MaxRounds
    /\ ~players[TMPlayer].in_jail
    /\ orch' = [orch EXCEPT !.rounds = @ + 1, !.rolled_this_turn = FALSE]
    /\ pc' = "pre_roll"
    /\ UNCHANGED <<players, bank, property_owners, current_player_index, turn_number,
                   turn_phase, last_roll, events, decks, steps>>
    /\ UNCHANGED <<runner, srv>>

TMPreRoll ==
    /\ pc = "pre_roll"
    /\ \E action \in TMPhaseActions(TMPlayer) :
        SetGame(tm_phase_action([Now EXCEPT !.turn_phase = "PRE_ROLL"], TMPlayer, action))
    /\ orch' = AfterThird(orch, "PRE_ROLL")
    /\ pc' = "roll"
    /\ UNCHANGED steps
    /\ UNCHANGED <<runner, srv>>

\* _handle_roll_phase
TMRoll ==
    /\ pc = "roll"
    /\ \E roll \in RunnerRolls :
        LET g0 == [Now EXCEPT !.turn_phase = "ROLL"]
            o0 == AfterThird(orch, "ROLL")
        IN  IF ~orch.rolled_this_turn
            THEN LET g1 == roll_dice(g0, roll)
                     cd == IF IsDoubles(roll) THEN orch.consecutive_doubles + 1 ELSE 0
                 IN  IF IsDoubles(roll) /\ cd >= 3
                     THEN /\ SetGame([game_send_to_jail(g1, TMPlayer)
                                        EXCEPT !.turn_phase = "END_TURN"])
                          /\ orch' = [orch EXCEPT !.consecutive_doubles = 0,
                                                  !.third_double = TRUE,
                                                  !.after_third = <<>>]
                     ELSE /\ SetGame(move_player(g1, TMPlayer, RollTotal(roll)))
                          /\ orch' = [o0 EXCEPT !.consecutive_doubles = cd]
            ELSE /\ SetGame(IF g0.last_roll # NoRoll
                            THEN move_player(g0, TMPlayer, RollTotal(g0.last_roll))
                            ELSE g0)
                 /\ orch' = o0
    /\ pc' = "landed"
    /\ UNCHANGED steps
    /\ UNCHANGED <<runner, srv>>

TMLanded ==
    /\ pc = "landed"
    /\ \E c \in CardChoice, should_buy \in BOOLEAN, baction \in BankruptcyActions :
        /\ SpaceType(players[TMPlayer].position) = "CHANCE"
                => c \in pile_for_draw(decks.chance, "chance")
        /\ SpaceType(players[TMPlayer].position) = "COMMUNITY_CHEST"
                => c \in pile_for_draw(decks.community_chest, "community_chest")
        /\ SetGame(tm_handle_landed(Now, TMPlayer, [c1 |-> c, c2 |-> c, roll |-> last_roll],
                                    should_buy, baction))
    /\ orch' = AfterThird(orch, "LANDED")
    /\ pc' = "post_roll"
    /\ UNCHANGED steps
    /\ UNCHANGED <<runner, srv>>

TMPostRoll ==
    /\ pc = "post_roll"
    /\ \E action \in TMPhaseActions(TMPlayer) :
        SetGame(tm_phase_action([Now EXCEPT !.turn_phase = "POST_ROLL"], TMPlayer, action))
    /\ orch' = AfterThird(orch, "POST_ROLL")
    /\ pc' = "end_turn"
    /\ UNCHANGED steps
    /\ UNCHANGED <<runner, srv>>

\* _handle_end_turn_phase: doubles call execute_turn again for the same player
TMEndTurn ==
    /\ pc = "end_turn"
    /\ SetGame([Now EXCEPT !.turn_phase = "END_TURN"])
    /\ IF last_roll # NoRoll /\ IsDoubles(last_roll) /\ orch.consecutive_doubles < 3
       THEN /\ orch' = [orch EXCEPT !.rolled_this_turn = FALSE]
            /\ pc' = "enter"
       ELSE /\ orch' = [orch EXCEPT !.consecutive_doubles = 0]
            /\ pc' = "done"
    /\ UNCHANGED steps
    /\ UNCHANGED <<runner, srv>>

TMNext ==
    \/ TMEnterJailed
    \/ TMEnterFree
    \/ TMPreRoll
    \/ TMRoll
    \/ TMLanded
    \/ TMPostRoll
    \/ TMEndTurn

SpecTurnManager == TMInit /\ [][TMNext]_vars

-----------------------------------------------------------------------------
(* Properties of the engine, checked under SpecEngine *)

HousesStanding(p) == houses_among(players[p].houses, PropertyPositions)
HotelsStanding(p) == hotels_among(players[p].houses, PropertyPositions)

RECURSIVE SumOver(_, _)
SumOver(f, S) ==
    IF S = {} THEN 0
    ELSE LET x == CHOOSE y \in S : TRUE IN f[x] + SumOver(f, S \ {x})

HasEvent(event_type) == \E i \in 1 .. Len(events) : events[i].event_type = event_type

\* C1: the houses standing on all properties (a hotel counts as no house) plus
\* the bank's houses_available are 32 after every engine operation.
C1_HousesConserved ==
    SumOver([p \in PlayerIds |-> HousesStanding(p)], PlayerIds) + bank.houses_available
        = MAX_HOUSES

\* C2: the hotels standing on all properties plus the bank's hotels_available
\* are 12 after every engine operation.
C2_HotelsConserved ==
    SumOver([p \in PlayerIds |-> HotelsStanding(p)], PlayerIds) + bank.hotels_available
        = MAX_HOTELS

C4_BuildingsOnMonopoly ==
    \A p \in PlayerIds, q \in PropertyPositions :
        players[p].houses[q] > 0
            => /\ q \in players[p].properties
               /\ has_monopoly(players[p], PROPERTIES(q).color_group)

\* C5: every player's cash is at least 0 in every reachable state.
C5_CashNonNegative == \A p \in PlayerIds : players[p].cash >= 0

\* a payment was refused for lack of cash: a player short of the 200 tax stands
\* on Income Tax after process_landing
C5_Witness ==
    \E p \in PlayerIds :
        /\ players[p].position = 4
        /\ players[p].cash < 200
        /\ steps >= 2
        /\ ~players[p].is_bankrupt

\* What the trade rules prescribe for an accepted proposal t applied to game g,
\* as the cash, properties, mortgage flags and jail cards of its two sides.
TradeFees(g, from, props) ==
    SumOver([q \in SeqToSet(props) |->
                IF q \in g.players[from].mortgaged THEN get_mortgage_value(q) \div 10 ELSE 0],
            SeqToSet(props))

TradeApplied(g, g2, t) ==
    LET a == t.proposer_id
        b == t.receiver_id
        off == SeqToSet(t.offered_properties)
        req == SeqToSet(t.requested_properties)
    IN  /\ g2.players[a].properties = (g.players[a].properties \ off) \cup req
        /\ g2.players[b].properties = (g.players[b].properties \ req) \cup off
        /\ \A q \in off : (q \in g2.players[b].mortgaged) <=> (q \in g.players[a].mortgaged)
        /\ \A q \in req : (q \in g2.players[a].mortgaged) <=> (q \in g.players[b].mortgaged)
        /\ \A q \in off : g2.property_owners[q] = b
        /\ \A q \in req : g2.property_owners[q] = a
        /\ g2.players[a].cash = g.players[a].cash - t.offered_cash + t.requested_cash
                                    - TradeFees(g, b, t.requested_properties)
        /\ g2.players[b].cash = g.players[b].cash - t.requested_cash + t.offered_cash
                                    - TradeFees(g, a, t.offered_properties)
        /\ g2.players[a].get_out_of_jail_cards =
                g.players[a].get_out_of_jail_cards - t.offered_jail_cards
                    + t.requested_jail_cards
        /\ g2.players[b].get_out_of_jail_cards =
                g.players[b].get_out_of_jail_cards - t.requested_jail_cards
                    + t.offered_jail_cards

TradeRefused(g, g2) ==
    /\ g2.players = g.players
    /\ g2.property_owners = g.property_owners
    /\ g2.bank = g.bank
    /\ \A i \in 1 .. Len(g2.events) : g2.events[i].event_type = "TRADE_REJECTED"

\* C6: execute_trade is all-or-nothing: from every reachable state, a proposal
\* that fails validation changes nothing but the TRADE_REJECTED record, and one
\* that passes has every property, cash amount, jail card and mortgage transfer
\* fee applied in full.
C6_TradeAllOrNothing ==
    \A t0 \in Proposals(Now) :
        LET t == WithCash(Now, t0)
            g2 == execute_trade(Now, t)
        IN  IF execute_trade_ok(Now, t) THEN TradeApplied(Now, g2, t)
            ELSE TradeRefused(Now, g2)

-----------------------------------------------------------------------------
(* Properties of a GameRunner turn, checked under SpecRunner *)

\* C7: when the landing step reports rent owed that the payer's cash covers, then
\* once the landing step is over (the phases left before the turn advances make
\* no rent payment) the payer holds exactly rent_owed less and the owner exactly
\* rent_owed more than when the player landed.
C7_RentPaidOnLanding ==
    (pc = "post_roll" /\ orch.rent_owed > 0 /\ orch.payer_cash >= orch.rent_owed)
        => /\ players[CurrentPlayer].cash = orch.payer_cash - orch.rent_owed
           /\ players[orch.rent_to_player].cash = orch.owner_cash + orch.rent_owed

\* the amount the landing left the current player owing: rent, or the tax
Owed == IF orch.rent_owed > 0 THEN orch.rent_owed ELSE orch.tax_owed

\* C8: when the amount owed on landing (rent or tax) exceeds the player's cash,
\* then by the end of the turn the amount has been paid in full or the player has
\* been declared bankrupt.
C8_DebtPaidOrBankrupt ==
    (pc = "end" /\ Owed > orch.payer_cash)
        => \/ orch.paid = Owed
           \/ players[CurrentPlayer].is_bankrupt

\* C9: advance_turn closes a turn in which the player rolled only after a roll
\* that was not doubles, after the player was jailed, or after the third double
\* in a row; otherwise the same player plays another round first.
C9_DoublesPlayAgain ==
    [][(pc = "end" /\ turn_number' = turn_number + 1)
        => \/ ~IsDoubles(last_roll)
           \/ players[CurrentPlayer].in_jail
           \/ orch.doubles_run >= 3]_vars

-----------------------------------------------------------------------------
(* Properties of a TurnManager turn, checked under SpecTurnManager *)

\* C10: once a third consecutive double is rolled in a turn the player is in jail
\* on position 10, and no landing processing, no POST_ROLL phase and no further
\* roll or jail decision happens in that turn.
C10_ThirdDoubleEndsTurn ==
    orch.third_double
        => /\ orch.after_third = <<>>
           /\ players[TMPlayer].in_jail
           /\ players[TMPlayer].position = JAIL_POSITION

\* ---------------------------------------------------------------------
\* A game session of the API: the event bus of the game, its History, the
\* stream consumers of websocket_endpoint and the session registry.  The run
\* loop appears through the events it hands to _emit_event.
\* ---------------------------------------------------------------------
NumConsumers == 2
MaxEvents == 2

HistoryListener == 0
Consumers == 1..NumConsumers
TypedListener == NumConsumers + 1
WILDCARD == "*"

\* the type of the k-th event of the game
EventTypeOf(k) ==
    IF k = 1 THEN "GAME_STARTED"
    ELSE IF k % 2 = 0 THEN "TURN_STARTED" ELSE "DICE_ROLLED"
EventTypeNames == {"GAME_STARTED", "TURN_STARTED", "DICE_ROLLED"}

InSeq(x, seq) == \E i \in DOMAIN seq : seq[i] = x
Without(seq, x) == SelectSeq(seq, LAMBDA y : y # x)

\* EventBus.__init__
NewBus == [subscribers |-> [t \in EventTypeNames |-> <<>>], wildcard_subscribers |-> <<>>]

\* EventBus.subscribe without its `callback not in ...` tests
subscribe_always_appends(bus, event_type, callback) ==
    IF event_type = WILDCARD
    THEN [bus EXCEPT !.wildcard_subscribers = Append(@, callback)]
    ELSE [bus EXCEPT !.subscribers[event_type] = Append(@, callback)]

\* EventBus.subscribe
subscribe(bus, event_type, callback) ==
    IF event_type = WILDCARD
    THEN IF InSeq(callback, bus.wildcard_subscribers) THEN bus
         ELSE [bus EXCEPT !.wildcard_subscribers = Append(@, callback)]
    ELSE IF InSeq(callback, bus.subscribers[event_type]) THEN bus
         ELSE [bus EXCEPT !.subscribers[event_type] = Append(@, callback)]

\* list.remove(x): the first occurrence of x is taken out
list_remove(seq, x) ==
    LET i == CHOOSE j \in DOMAIN seq : seq[j] = x /\ \A k \in 1..(j - 1) : seq[k] # x
    IN  SubSeq(seq, 1, i - 1) \o SubSeq(seq, i + 1, Len(seq))

\* EventBus.unsubscribe
unsubscribe(bus, event_type, callback) ==
    IF event_type = WILDCARD
    THEN IF InSeq(callback, bus.wildcard_subscribers)
         THEN [bus EXCEPT !.wildcard_subscribers = list_remove(@, callback)]
         ELSE bus
    ELSE IF InSeq(callback, bus.subscribers[event_type])
         THEN [bus EXCEPT !.subscribers[event_type] = list_remove(@, callback)]
         ELSE bus

\* the snapshot with the wildcard subscribers left out
callbacks_to_invoke_typed_only(bus, event_type) ==
    bus.subscribers[event_type]

\* EventBus.emit, the snapshot taken under the lock: the subscribers of the
\* event's type, then the wildcard subscribers
callbacks_to_invoke(bus, event_type) ==
    bus.subscribers[event_type] \o bus.wildcard_subscribers

\* EventHistory.__init__
NewHistory == [events |-> <<>>, sequence_counter |-> 0]

\* add_event without `self._sequence_counter += 1`
add_event_same_sequence(h, event) ==
    [h EXCEPT !.events = Append(@, [event |-> event, sequence |-> h.sequence_counter])]

\* EventHistory.add_event
add_event(h, event) ==
    [events |-> Append(h.events, [event |-> event, sequence |-> h.sequence_counter]),
     sequence_counter |-> h.sequence_counter + 1]

\* EventHistory.get_event_count
get_event_count(h) == Len(h.events)

\* EventHistory.get_events(since)
get_events(h, since) == SelectSeq(h.events, LAMBDA e : e.sequence >= since)

\* ConnectionManager.disconnect: the connections left and whether it was the last
disconnect(active, c) ==
    LET left == Without(active, c)
    IN  [active |-> left, was_last |-> (left = <<>>)]

\* start_game: the session is registered with a new bus and History, the
\* history listener subscribed and the run loop started; one more callback,
\* which may raise, is subscribed to the TURN_STARTED events
NewSession(raising) ==
    [mode |-> "session",
     registered |-> TRUE,
     bus |-> subscribe(subscribe(NewBus, "TURN_STARTED", TypedListener),
                       WILDCARD, HistoryListener),
     raising |-> raising,
     emitted |-> 0,
     tasks |-> <<>>,
     history |-> NewHistory,
     conn |-> [c \in Consumers |-> "none"],
     snapshot |-> [c \in Consumers |-> 0],
     active |-> <<>>]

SessionInit ==
    /\ InitGame(NewGame([p \in PlayerIds |-> STARTING_CASH]))
    /\ pc = "start"
    /\ orch = NewTurn
    /\ steps = 0
    /\ runner = [NewRunner EXCEPT !.running = TRUE, !.loop = "looping"]
    /\ \E raising \in {{}, {TypedListener}} : srv = NewSession(raising)

SessionFrame ==
    UNCHANGED <<players, bank, property_owners, current_player_index, turn_number,
                turn_phase, last_roll, events, decks, pc, orch, steps>>

\* the state of one callback of an emit: not started ("pending"), suspended
\* at an await ("running"), returned ("done"), ended by an exception that
\* _safe_invoke caught and logged ("failed") or by one that escaped
\* ("exception")
Pending(cb) == cb.st = "pending"
InFlight(cb) == cb.st = "running"
Completed(cb) == cb.st \in {"done", "failed", "exception"}

\* EventBus._safe_invoke: `except Exception` around the callback
safe_invoke(outcome) == IF outcome = "exception" THEN "failed" ELSE outcome

\* asyncio.gather(*tasks, return_exceptions=True): an exception of a task is
\* one of the results
gather(results) == "returned"

\* GameRunner._emit_event: the event is handed to a new task running bus.emit
SessionEmit ==
    /\ runner.loop = "looping"
    /\ srv.emitted < MaxEvents
    /\ srv' = [srv EXCEPT !.emitted = @ + 1,
                          !.tasks = Append(@, [state |-> "ready", cbs |-> <<>>])]
    /\ UNCHANGED runner
    /\ SessionFrame

\* EventBus.emit up to its gather: the snapshot is taken and one _safe_invoke
\* per callback created; tasks run in the order they were created
EmitSnapshot ==
    /\ \E k \in DOMAIN srv.tasks :
          /\ srv.tasks[k].state = "ready"
          /\ \A j \in 1..(k - 1) : srv.tasks[j].state # "ready"
          /\ LET callbacks == callbacks_to_invoke(srv.bus, EventTypeOf(k))
             IN  srv' = [srv EXCEPT !.tasks[k] =
                            [state |-> IF callbacks = <<>> THEN "returned" ELSE "gathering",
                             cbs |-> [i \in DOMAIN callbacks |->
                                         [sub |-> callbacks[i], st |-> "pending"]]]]
    /\ UNCHANGED runner
    /\ SessionFrame

\* _safe_invoke of one callback, up to its first await or its end: the history
\* listener and a stream consumer's event_listener store the event; the
\* event_listener then awaits send_json when its socket is connected; an
\* exception of the callback is caught
start_callback(s, k, i) ==
    LET sub == s.tasks[k].cbs[i].sub
    IN  IF sub = HistoryListener
        THEN [s EXCEPT !.history = add_event(@, k), !.tasks[k].cbs[i].st = "done"]
        ELSE IF sub \in Consumers
        THEN [s EXCEPT !.history = add_event(@, k),
                       !.tasks[k].cbs[i].st = IF s.conn[sub] = "subscribed" THEN "running"
                                              ELSE "done"]
        ELSE [s EXCEPT !.tasks[k].cbs[i].st =
                           safe_invoke(IF sub \in s.raising THEN "exception" ELSE "done")]

\* the callbacks of one emit from the i-th on, in the order of the snapshot
RECURSIVE start_callbacks(_, _, _)
start_callbacks(s, k, i) ==
    IF i > Len(s.tasks[k].cbs) THEN s
    ELSE start_callbacks(start_callback(s, k, i), k, i + 1)

\* the tasks gather created for one emit run their first steps: they were
\* queued together, so the event loop runs them one after the other, and
\* after those of every earlier emit
CallbackStart ==
    /\ \E k \in DOMAIN srv.tasks :
          /\ srv.tasks[k].state = "gathering"
          /\ Pending(srv.tasks[k].cbs[1])
          /\ \A j \in 1..(k - 1) :
                \A n \in DOMAIN srv.tasks[j].cbs : ~Pending(srv.tasks[j].cbs[n])
          /\ srv' = start_callbacks(srv, k, 1)
    /\ UNCHANGED runner
    /\ SessionFrame

\* the send_json an event_listener awaits completes (a failed send is
\* swallowed by the listener); the sends begun on one socket complete in the
\* order they were begun, those of different sockets in any order
CallbackResume ==
    /\ \E k \in DOMAIN srv.tasks : \E i \in DOMAIN srv.tasks[k].cbs :
          /\ InFlight(srv.tasks[k].cbs[i])
          /\ \A j \in 1..(k - 1) : \A n \in DOMAIN srv.tasks[j].cbs :
                srv.tasks[j].cbs[n].sub = srv.tasks[k].cbs[i].sub
                    => ~InFlight(srv.tasks[j].cbs[n])
          /\ srv' = [srv EXCEPT !.tasks[k].cbs[i].st = "done"]
    /\ UNCHANGED runner
    /\ SessionFrame

\* asyncio.gather(..., return_exceptions=True) completes and emit returns
EmitReturn ==
    /\ \E k \in DOMAIN srv.tasks :
          /\ srv.tasks[k].state = "gathering"
          /\ \A i \in DOMAIN srv.tasks[k].cbs : Completed(srv.tasks[k].cbs[i])
          /\ srv' = [srv EXCEPT !.tasks[k].state =
                            gather([i \in DOMAIN srv.tasks[k].cbs |-> srv.tasks[k].cbs[i].st])]
    /\ UNCHANGED runner
    /\ SessionFrame

\* run_game returns after its last event (GAME_OVER): its `finally` clears the
\* running flag
SessionGameOver ==
    /\ runner.loop = "looping"
    /\ srv.emitted = MaxEvents
    /\ runner' = [runner EXCEPT !.running = FALSE, !.loop = "returned"]
    /\ UNCHANGED srv
    /\ SessionFrame

\* websocket_endpoint up to the send of send_game_state_sync: the session is
\* looked up, the socket accepted and listed by manager.connect, the state read
\* with get_state and `await websocket.send_json(sync_event)` begun.  Consumers
\* are interchangeable: they connect in the order of their numbers.
WsConnect ==
    /\ srv.registered
    /\ \E c \in Consumers :
          /\ srv.conn[c] = "none"
          /\ \A d \in 1..(c - 1) : srv.conn[d] # "none"
          /\ srv' = [srv EXCEPT !.conn[c] = "synced", !.active = Append(@, c),
                                !.snapshot[c] = srv.emitted]
    /\ UNCHANGED runner
    /\ SessionFrame

\* `await event_bus.subscribe("*", event_listener)`
WsSubscribe ==
    /\ \E c \in Consumers :
          /\ srv.conn[c] = "synced"
          /\ srv' = [srv EXCEPT !.conn[c] = "subscribed",
                                !.bus = subscribe(@, WILDCARD, c)]
    /\ UNCHANGED runner
    /\ SessionFrame

\* the receive loop ends with WebSocketDisconnect and the `finally` clause
\* runs: unsubscribe, manager.disconnect, and for the last connection of a
\* running game stop() and remove_game
WsDisconnect ==
    /\ \E c \in Consumers :
          /\ srv.conn[c] = "subscribed"
          /\ LET d == disconnect(srv.active, c)
                 cleanup == d.was_last /\ runner.running
             IN  /\ srv' = [srv EXCEPT !.conn[c] = "closed",
                                       !.snapshot[c] = 0,
                                       !.bus = unsubscribe(@, WILDCARD, c),
                                       !.active = d.active,
                                       !.registered = IF cleanup THEN FALSE ELSE @]
                 /\ runner' = IF cleanup
                              THEN [runner EXCEPT !.running = FALSE, !.paused = FALSE]
                              ELSE runner
    /\ SessionFrame

SessionNext ==
    \/ SessionEmit
    \/ EmitSnapshot
    \/ CallbackStart
    \/ CallbackResume
    \/ EmitReturn
    \/ SessionGameOver
    \/ WsConnect
    \/ WsSubscribe
    \/ WsDisconnect

SpecSession == SessionInit /\ [][SessionNext]_vars

\* C11: a player whom ROLL_DOUBLES released from jail (by doubles or by the
\* forced fine on the third failed attempt) is moved by the roll that released
\* them, and the turn makes no further dice roll for them.
C11_FreedByRollMovesOnce ==
    (pc = "landed" /\ orch.freed_roll # NoRoll)
        => /\ ~orch.rolled
           /\ players[CurrentPlayer].position
                  = (JAIL_POSITION + RollTotal(orch.freed_roll)) % BOARD_SIZE

-----------------------------------------------------------------------------
(* Properties of run_game, checked under SpecRunGame / SpecRunGameFair *)

Returned == runner.loop = "returned"

\* C12: unless the runner stays paused for ever, run_game returns; when it
\* returns it has just emitted GAME_OVER with reason completed or
\* max_turns_reached and the turn count it returns is at most max_turns, also
\* when every agent call fails.
C12_RunGameTerminates ==
    /\ [](Returned => runner.returned_turns <= MaxTurns /\ turn_number <= MaxTurns)
    /\ [][(~Returned /\ Returned')
            => /\ Len(runner'.emitted) = 1
               /\ runner'.emitted[1].event_type = "GAME_OVER"
               /\ runner'.emitted[1].reason \in {"completed", "max_turns_reached"}]_vars
    /\ (<>[](~runner.paused)) => <>Returned

C12_Witness ==
    /\ Returned
    /\ runner.failing = PlayerIds
    /\ \A p \in PlayerIds : runner.fallback_uses[p] > 0
    /\ runner.returned_turns = MaxTurns

\* C13: once stop() has cleared the running flag, the run loop standing
\* between two turns starts no further turn (it neither enters _run_turn nor
\* advances the turn counter), whatever is left of the max_turns budget.
C13_StoppedStartsNoTurn ==
    [][(runner.loop = "looping" /\ ~runner.running /\ pc = "start")
          => (pc' = "start" /\ turn_number' = turn_number)]_vars

AtLoopHead == runner.loop = "looping" /\ pc = "start"
\* C14: while the pause flag is set and the loop stands between two turns, no
\* turn starts and the engine state (turn number, current player, players,
\* bank, ownership, decks, phase, last roll) stays as it is, so the turn that
\* starts after resume is the one that was next when the loop paused; a pause
\* set while a turn is executing does not hold that turn up, which runs to
\* its end.
C14_PauseBlocksBetweenTurns ==
    /\ [][(runner.paused /\ AtLoopHead)
            => /\ pc' = "start"
               /\ UNCHANGED <<players, bank, property_owners, current_player_index,
                              turn_number, turn_phase, last_roll, decks>>]_vars
    /\ (runner.paused /\ pc # "start") ~> (pc = "start")
\* a pause set during the first turn holds the loop before the second one
C14_Witness ==
    /\ runner.paused /\ AtLoopHead
    /\ turn_number = 1
    /\ loop_condition(Now, MaxTurns)

FallbackThought(p) ==
    [event_type |-> "AGENT_THOUGHT", player_id |-> p, reason |-> "[FALLBACK]"]
FallbackThoughts(emitted, p) ==
    Cardinality({i \in DOMAIN emitted : emitted[i] = FallbackThought(p)})
FallbackDelta(p) == runner'.fallback_uses[p] - runner.fallback_uses[p]
JailDecisionStep ==
    pc = "start" /\ players[CurrentPlayer].in_jail /\ ~players[CurrentPlayer].is_bankrupt
DecisionStep == JailDecisionStep \/ pc \in {"pre_roll", "landed", "post_roll"}
\* C15: in every step of a turn that asks agents for decisions, each failed
\* call is answered by that seat's fallback agent and recorded once: a seat's
\* fallback counter rises by the number of [FALLBACK] AGENT_THOUGHT events
\* emitted for it and nothing else is emitted, a seat whose calls succeed is
\* never counted, a failed jail, pre-roll or post-roll call counts exactly
\* one, a landing counts at most the buy call and one bid per seat; the engine
\* state after the step is the one the fallback's decision produces (nothing
\* for pre- and post-roll, the fallback's jail action, a purchase only with
\* cash of twice the price); and the turn goes on to its next phase.
C15_FallbackOnAgentFailure ==
    [][DecisionStep =>
        LET cp == CurrentPlayer
            failed == cp \in runner.failing
            pos == players'[cp].position
        IN  /\ \A p \in PlayerIds :
                  /\ FallbackDelta(p) = FallbackThoughts(runner'.emitted, p)
                  /\ p \notin runner.failing => FallbackDelta(p) = 0
            /\ \A i \in DOMAIN runner'.emitted :
                  \E p \in runner.failing : runner'.emitted[i] = FallbackThought(p)
            /\ (failed /\ pc \in {"pre_roll", "post_roll"})
                  => /\ FallbackDelta(cp) = 1
                     /\ \A p \in PlayerIds \ {cp} : FallbackDelta(p) = 0
                     /\ UNCHANGED <<players, bank, property_owners,
                                    current_player_index, turn_number, decks>>
            /\ (failed /\ JailDecisionStep)
                  => /\ FallbackDelta(cp) = 1
                     /\ \A p \in PlayerIds \ {cp} : FallbackDelta(p) = 0
                     /\ \E roll \in RunnerRolls :
                          LET g1 == handle_jail_turn(
                                        Now, cp, fallback_decide_jail_action(Now, cp), roll)
                          IN  players' = (IF g1.players[cp].in_jail THEN advance_turn(g1)
                                          ELSE g1).players
            /\ (failed /\ pc = "landed")
                  => /\ FallbackDelta(cp) <= 2
                     /\ \A p \in PlayerIds \ {cp} : FallbackDelta(p) <= 1
                     /\ (FallbackDelta(cp) = 1 /\ \A p \in PlayerIds \ {cp} : FallbackDelta(p) = 0)
                           => /\ property_owners'[pos] = cp
                              /\ players'[cp].cash >= get_purchase_price(pos)
                     /\ FallbackDelta(cp) = 2
                           => players[cp].cash < 2 * get_purchase_price(pos)
            /\ pc' = CASE pc = "pre_roll" -> "roll"
                        [] pc = "landed" -> "post_roll"
                        [] pc = "post_roll" -> "end"
                        [] OTHER -> IF players'[cp].in_jail THEN "start" ELSE "pre_roll"]_vars
\* a landing where the buy call and every bid call failed
C15_Witness ==
    /\ pc = "post_roll"
    /\ runner.failing = PlayerIds
    /\ Len(runner.emitted) = 1 + NumPlayers
    /\ \A p \in PlayerIds : runner.fallback_uses[p] >= 1

InvocationsInFlight(sub) ==
    {k \in DOMAIN srv.tasks :
        \E i \in DOMAIN srv.tasks[k].cbs :
            srv.tasks[k].cbs[i].sub = sub /\ InFlight(srv.tasks[k].cbs[i])}
\* C16: a subscriber of the bus never has two invocations of its callback in
\* flight at once: its callback for a later event of the runner is not
\* started while its callback for an earlier one is suspended.
C16_OneInvocationAtATime ==
    \A sub \in {HistoryListener, TypedListener} \cup Consumers :
        Cardinality(InvocationsInFlight(sub)) <= 1

Subs(task) == [i \in DOMAIN task.cbs |-> task.cbs[i].sub]
\* C17: when emit takes its snapshot, the callbacks it will invoke are the
\* subscribers of the event's type followed by the wildcard subscribers, as
\* subscribed at that moment; emit has returned only when every one of them
\* has completed; a callback that raised has stopped no other callback of the
\* same emit from completing normally, and emit itself returns normally.
C17_EmitReachesEverySubscriber ==
    /\ [][\A k \in DOMAIN srv.tasks :
            (srv.tasks[k].state = "ready" /\ srv'.tasks[k].state # "ready")
                => Subs(srv'.tasks[k])
                      = srv.bus.subscribers[EventTypeOf(k)] \o srv.bus.wildcard_subscribers]_vars
    /\ [](\A k \in DOMAIN srv.tasks :
            /\ srv.tasks[k].state \in {"ready", "gathering", "returned"}
            /\ srv.tasks[k].state = "returned"
                  => \A i \in DOMAIN srv.tasks[k].cbs :
                        /\ Completed(srv.tasks[k].cbs[i])
                        /\ srv.tasks[k].cbs[i].sub \notin srv.raising
                              => srv.tasks[k].cbs[i].st = "done")
\* an emit has returned although the typed subscriber raised, and a stream
\* consumer and the history listener completed for the same event
C17_Witness ==
    \E k \in DOMAIN srv.tasks :
        /\ srv.tasks[k].state = "returned"
        /\ \E i \in DOMAIN srv.tasks[k].cbs : srv.tasks[k].cbs[i].st = "failed"
        /\ \E i \in DOMAIN srv.tasks[k].cbs : srv.tasks[k].cbs[i].sub \in Consumers
        /\ \E i \in DOMAIN srv.tasks[k].cbs : srv.tasks[k].cbs[i].sub = HistoryListener

\* C18: the events stored in the History carry the sequence numbers 0, 1,
\* 2, ... in append order (the event at index i, counting from 0, has
\* sequence i), the count of stored events equals the next sequence number,
\* and reading from sequence 0 returns all of them.
C18_HistorySequenceDense ==
    /\ \A i \in DOMAIN srv.history.events : srv.history.events[i].sequence = i - 1
    /\ get_event_count(srv.history) = srv.history.sequence_counter
    /\ get_events(srv.history, 0) = srv.history.events
\* the history listener and the listeners of stream consumers have stored
\* two events of the game, each of them more than once
C18_Witness ==
    /\ Len(srv.history.events) >= 4
    /\ srv.history.events[1].event = srv.history.events[2].event
    /\ srv.history.events[Len(srv.history.events)].event > srv.history.events[1].event
    /\ srv.history.events[Len(srv.history.events)].sequence = Len(srv.history.events) - 1

\* C19: a subscribed stream consumer is delivered, by every emit that has
\* returned, each event the runner emitted after the state of its
\* game_state_sync snapshot was read.
C19_NoEventLostAfterSnapshot ==
    \A c \in Consumers :
        srv.conn[c] = "subscribed"
            => \A k \in DOMAIN srv.tasks :
                  (k > srv.snapshot[c] /\ srv.tasks[k].state = "returned")
                      => \E i \in DOMAIN srv.tasks[k].cbs :
                            srv.tasks[k].cbs[i] = [sub |-> c, st |-> "done"]

\* C20: the disconnect of the last stream consumer leaves the runner stopped
\* and the session out of the registry, also when run_game has already
\* returned; a disconnect that leaves a consumer connected changes neither
\* the running flag nor the registry.
C20_LastDisconnectRemovesSession ==
    [][\A c \in Consumers :
          (srv.conn[c] = "subscribed" /\ srv'.conn[c] = "closed")
              => IF \A d \in Consumers \ {c} : ~InSeq(d, srv.active)
                 THEN ~runner'.running /\ ~srv'.registered
                 ELSE runner'.running = runner.running
                      /\ srv'.registered = srv.registered]_vars


-----------------------------------------------------------------------------
(* The bus stream of a turn against the engine's log of the same turn *)

\* the event types Game._emit records for the transitions of a turn up to the
\* landing (TURN_STARTED is recorded by advance_turn at the close of the turn
\* before and is left out of the comparison)
TransitionTypes ==
    {"DICE_ROLLED", "PLAYER_MOVED", "PASSED_GO", "CARD_DRAWN", "RENT_PAID", "TAX_PAID",
     "PLAYER_JAILED", "PLAYER_FREED", "PROPERTY_PURCHASED", "AUCTION_WON"}

\* the transition types of an event sequence, in order
RECURSIVE Transitions(_)
Transitions(evs) ==
    IF evs = <<>> THEN <<>>
    ELSE (IF Head(evs).event_type \in TransitionTypes THEN <<Head(evs).event_type>>
          ELSE <<>>) \o Transitions(Tail(evs))

\* C21: the game-state events delivered on the bus match the engine's log:
\* when a turn has gone through its landing (or its jail attempt), the
\* transitions announced on the bus during the turn are the transitions the
\* engine recorded during it, once each and in the same order.
C21_BusMatchesEngineLog ==
    (pc = "post_roll" \/ (pc = "start" /\ orch.advanced_after = "jail"))
        => Transitions(orch.announced) = Transitions(orch.logged)

-----------------------------------------------------------------------------
(* Seeded dice: two games built with one seed and played by one policy *)

NumSeeds == 3
MaxSeededTurns == 3

Seeds == 0 .. (NumSeeds - 1)

\* random.Random(seed).randint(1, 6): the first 64 values the generator yields
\* for the seeds 0 .. 4
RandintValues ==
    <<
      <<4, 4, 1, 3, 5, 4, 4, 3, 4, 3, 5, 2, 5, 2, 3, 2, 1, 5, 3, 5, 6, 5, 2, 3, 1, 6, 1, 6, 3, 4, 5, 1,
        3, 4, 3, 5, 6, 2, 5, 4, 4, 5, 3, 1, 5, 1, 1, 6, 4, 6, 6, 6, 1, 5, 4, 3, 2, 6, 3, 6, 1, 2, 5, 2>>,
      <<2, 5, 1, 3, 1, 4, 4, 4, 6, 4, 2, 1, 4, 1, 4, 4, 5, 1, 6, 4, 3, 6, 2, 5, 1, 3, 1, 1, 1, 6, 5, 1,
        4, 6, 2, 4, 6, 1, 5, 2, 4, 4, 5, 2, 3, 2, 6, 2, 4, 3, 1, 4, 5, 6, 1, 2, 6, 6, 3, 1, 6, 3, 6, 6>>,
      <<1, 1, 1, 3, 2, 6, 6, 3, 3, 5, 2, 5, 1, 5, 6, 2, 4, 6, 4, 6, 5, 3, 5, 4, 5, 3, 1, 1, 3, 4, 3, 4,
        4, 5, 2, 5, 2, 2, 2, 1, 2, 3, 2, 2, 5, 5, 3, 5, 6, 5, 2, 4, 4, 6, 5, 3, 5, 3, 3, 4, 2, 4, 6, 6>>,
      <<2, 5, 5, 2, 3, 5, 4, 6, 5, 1, 5, 1, 4, 3, 5, 2, 2, 6, 4, 5, 5, 4, 4, 6, 2, 2, 6, 2, 5, 4, 6, 1,
        6, 1, 2, 5, 1, 3, 1, 3, 4, 5, 6, 4, 6, 4, 4, 6, 5, 4, 2, 3, 1, 1, 2, 4, 2, 3, 6, 4, 6, 3, 4, 5>>,
      <<2, 3, 1, 6, 4, 4, 2, 1, 1, 1, 4, 5, 3, 1, 2, 5, 5, 3, 3, 2, 1, 3, 2, 1, 6, 3, 3, 2, 2, 3, 3, 6,
        6, 3, 1, 5, 3, 6, 4, 5, 2, 2, 2, 4, 3, 1, 5, 3, 1, 3, 5, 6, 3, 5, 2, 4, 4, 5, 3, 4, 4, 2, 2, 3>>
    >>

\* Dice.__init__: a generator of its own, seeded; `calls` counts its draws
NewDice(seed) == [seed |-> seed, calls |-> 0]

randint(rng) == RandintValues[rng.seed + 1][rng.calls + 1]

advanced(rng, n) == [rng EXCEPT !.calls = @ + n]

\* a roll drawn from the generator of the random module, which every Dice of
\* the process would share
roll_from_module_generator(dice, shared) ==
    [roll |-> [die1 |-> randint(shared), die2 |-> randint(advanced(shared, 1))],
     dice |-> dice, shared |-> advanced(shared, 2)]

\* Dice.roll: two draws from the Dice's own generator; the generator of the
\* random module (`shared`) is not touched
dice_roll(dice, shared) ==
    [roll |-> [die1 |-> randint(dice), die2 |-> randint(advanced(dice, 1))],
     dice |-> advanced(dice, 2), shared |-> shared]

\* the element of S of rank k (mod the size of S), 9 when S is empty
Pick(S, k) ==
    IF S = {} THEN 9
    ELSE CHOOSE x \in S : Cardinality({y \in S : y < x}) = k % Cardinality(S)

\* the top card of the deck the player stands on: the decks are shuffled by
\* generators seeded with seed (Chance) and seed + 1 (Community Chest)
seeded_draw(g, pid, seed) ==
    IF SpaceType(g.players[pid].position) = "CHANCE"
    THEN Pick(CardChoice \cap pile_for_draw(g.decks.chance, "chance"), seed)
    ELSE IF SpaceType(g.players[pid].position) = "COMMUNITY_CHEST"
    THEN Pick(CardChoice \cap pile_for_draw(g.decks.community_chest, "community_chest"),
              seed + 1)
    ELSE 9

HasRolled(evs) == \E i \in DOMAIN evs : evs[i].event_type = "DICE_ROLLED"

\* a game with its Dice and the DICE_ROLLED events it has recorded
NewSeeded(g, seed) == [g |-> g, dice |-> NewDice(seed), rolled |-> <<>>]

\* GameRunner._run_turn played by a deterministic policy (jail action, buy
\* answer, auction bid); the rolls are drawn from the game's Dice in the order
\* jail roll, turn roll, utility-card roll
seeded_run_turn(sg, shared, policy) ==
    LET g == [sg.g EXCEPT !.events = <<>>]
        pid == g.current_player_index
        pl == g.players[pid]
    IN  IF pl.is_bankrupt
        THEN [game |-> [sg EXCEPT !.g = advance_turn(g)], shared |-> shared]
        ELSE
        LET r1 == dice_roll(sg.dice, shared)
            jail_rolls == pl.in_jail /\ policy.jail = "ROLL_DOUBLES"
            g1 == IF pl.in_jail THEN handle_jail_turn(g, pid, policy.jail, r1.roll) ELSE g
            s1 == IF jail_rolls THEN r1 ELSE [roll |-> NoRoll, dice |-> sg.dice,
                                              shared |-> shared]
            log1 == sg.rolled \o (IF jail_rolls THEN <<r1.roll>> ELSE <<>>)
        IN  IF g1.players[pid].in_jail
            THEN [game |-> [g |-> advance_turn(g1), dice |-> s1.dice, rolled |-> log1],
                  shared |-> s1.shared]
            ELSE
            LET r2 == dice_roll(s1.dice, s1.shared)
                g2 == move_player(roll_dice([g1 EXCEPT !.turn_phase = "ROLL"], r2.roll),
                                  pid, RollTotal(r2.roll))
                r3 == dice_roll(r2.dice, r2.shared)
                c == seeded_draw(g2, pid, sg.dice.seed)
                ch == [c1 |-> c, c2 |-> c, roll |-> r3.roll]
                g3 == runner_handle_landing(
                          [g2 EXCEPT !.turn_phase = "LANDED", !.events = <<>>], pid, ch,
                          policy.buy, [p \in PlayerIds |-> policy.bid], {})
                s3 == IF HasRolled(g3.events) THEN r3 ELSE r2
                log3 == log1 \o <<r2.roll>>
                        \o (IF HasRolled(g3.events) THEN <<r3.roll>> ELSE <<>>)
            IN  [game |-> [g |-> advance_turn([g3 EXCEPT !.turn_phase = "POST_ROLL"]),
                           dice |-> s3.dice, rolled |-> log3],
                 shared |-> s3.shared]

Policies == [jail : JailActions, buy : BOOLEAN, bid : {0} \cup BidAmounts]

SeededSetups ==
    {NewGame([p \in PlayerIds |-> STARTING_CASH]),
     InJail(GameInProgress(Unowned, Unbuilt, RichAndPoor, 1))}

SeededInit ==
    /\ InitGame(NewGame([p \in PlayerIds |-> STARTING_CASH]))
    /\ pc = "start"
    /\ orch = NoOrch
    /\ steps = 0
    /\ runner = NewRunner
    /\ \E seed \in Seeds, policy \in Policies, g \in SeededSetups :
          srv = [mode |-> "seeded", policy |-> policy, shared |-> NewDice(0),
                 a |-> NewSeeded(g, seed), b |-> NewSeeded(g, seed)]

SeededFrame ==
    UNCHANGED <<players, bank, property_owners, current_player_index, turn_number,
                turn_phase, last_roll, events, decks, pc, orch, steps, runner>>

\* one turn of the first game
SeededTurnA ==
    /\ loop_condition(srv.a.g, MaxSeededTurns)
    /\ \E t \in {seeded_run_turn(srv.a, srv.shared, srv.policy)} :
          srv' = [srv EXCEPT !.a = t.game, !.shared = t.shared]
    /\ SeededFrame

\* one turn of the second game
SeededTurnB ==
    /\ loop_condition(srv.b.g, MaxSeededTurns)
    /\ \E t \in {seeded_run_turn(srv.b, srv.shared, srv.policy)} :
          srv' = [srv EXCEPT !.b = t.game, !.shared = t.shared]
    /\ SeededFrame

SeededNext == SeededTurnA \/ SeededTurnB

SpecSeeded == SeededInit /\ [][SeededNext]_vars

IsPrefix(s, t) == Len(s) <= Len(t) /\ \A i \in DOMAIN s : s[i] = t[i]

-----------------------------------------------------------------------------
(* Game.auction_property *)

\* the step is the auction of `pos` with the bids `bids`
IsAuction(pos, bids) ==
    /\ pc = "engine"
    /\ ~is_property_owned(Now, pos)
    /\ steps' = steps + 1
    /\ \E after \in {auction_property(Now, pos, bids)} :
          /\ players' = after.players
          /\ property_owners' = after.property_owners
          /\ events' = after.events
          /\ bank' = after.bank

\* the bidders whose valid bid is the highest valid bid
TopBidders(g, bids) ==
    {b.pid : b \in {valid_bids(g, bids)[i] : i \in DOMAIN valid_bids(g, bids)} \cap
                   {x \in [pid : PlayerIds, amount : BidAmounts] :
                       \A j \in DOMAIN valid_bids(g, bids) :
                           valid_bids(g, bids)[j].amount <= x.amount}}

Lowest(S) == CHOOSE x \in S : \A y \in S : x <= y

\* C23: when two or more valid bids tie for the highest amount, the auction
\* gives the property to the tied bidder with the lowest player_id, whatever
\* the order of the bids in the map.
C23_TieGoesToLowestId ==
    [][\A pos \in EnginePositions, bids \in AnyBidLists :
          (IsAuction(pos, bids) /\ Cardinality(TopBidders(Now, bids)) >= 2)
              => property_owners'[pos] = Lowest(TopBidders(Now, bids))]_vars

\* C24: an auction gives the property only to a bidder who is not bankrupt and
\* whose bid is above 0 and within their cash; the winner pays exactly the
\* bid and nobody else's cash changes; without a valid bid no cash changes
\* and the property stays unowned.
C24_AuctionAwardsValidBidOnly ==
    [][\A pos \in EnginePositions, bids \in AnyBidLists :
          IsAuction(pos, bids)
              => IF property_owners'[pos] # NoOwner
                 THEN \E i \in DOMAIN bids :
                        /\ bids[i].pid = property_owners'[pos]
                        /\ bids[i].amount > 0
                        /\ bids[i].amount <= players[bids[i].pid].cash
                        /\ ~players[bids[i].pid].is_bankrupt
                        /\ players'[bids[i].pid].cash
                              = players[bids[i].pid].cash - bids[i].amount
                        /\ \A q \in PlayerIds \ {bids[i].pid} :
                              players'[q].cash = players[q].cash
                 ELSE /\ \A q \in PlayerIds : players'[q].cash = players[q].cash
                      /\ property_owners' = property_owners]_vars

\* an auction has been won in a game where another player is bankrupt or
\* cannot afford the bid
C24_Witness ==
    \E i \in DOMAIN events :
        /\ events[i].event_type = "AUCTION_WON"
        /\ \E q \in PlayerIds \ {events[i].player_id} :
              players[q].is_bankrupt \/ players[q].cash < events[i].amount

-----------------------------------------------------------------------------
(* Single engine calls *)

\* the step is the engine call that turns the game into `after`
StepIs(after) ==
    /\ pc = "engine"
    /\ steps' = steps + 1
    /\ players' = after.players
    /\ bank' = after.bank
    /\ property_owners' = after.property_owners
    /\ current_player_index' = after.current_player_index
    /\ turn_number' = after.turn_number
    /\ turn_phase' = after.turn_phase
    /\ last_roll' = after.last_roll
    /\ events' = after.events
    /\ decks' = after.decks

\* C25: the third failed ROLL_DOUBLES attempt of a jailed player takes exactly
\* JAIL_FINE from the player's cash and releases the player, whatever cash the
\* player holds.
C25_ThirdFailedRollPaysFine ==
    [][\A p \in PlayerIds, roll \in EngineRolls :
          (/\ players[p].in_jail
           /\ players[p].jail_turns = MAX_JAIL_TURNS - 1
           /\ ~IsDoubles(roll)
           /\ StepIs(handle_jail_turn(Now, p, "ROLL_DOUBLES", roll)))
              => /\ players'[p].cash = players[p].cash - JAIL_FINE
                 /\ ~players'[p].in_jail]_vars

DeckNames == {"chance", "community_chest"}

\* the Get Out of Jail Free cards in the players' hands
RECURSIVE CardsInHand(_, _)
CardsInHand(ps, S) ==
    IF S = {} THEN 0
    ELSE LET q == CHOOSE x \in S : TRUE
         IN  ps[q].get_out_of_jail_cards + CardsInHand(ps, S \ {q})

IsJailCard(name, i) == DeckCards(name)[i].effect_type = "GET_OUT_OF_JAIL"

\* the card the step drew
DrawnCards(evs) == {evs[i].amount : i \in {j \in DOMAIN evs : evs[j].event_type = "CARD_DRAWN"}}

\* C26: when a draw finds the pile of a deck exhausted, the refilled pile (the
\* card drawn and the cards left) holds every other card of the deck, and the
\* deck's Get Out of Jail Free card is in it when no player holds such a card
\* and left out when the players hold the cards of both decks.
C26_RefillOmitsJailCardIffHeld ==
    [][\A name \in DeckNames :
          (pc = "engine" /\ decks[name].draw_pile = {} /\ decks'[name] # decks[name])
              => \E new \in {decks'[name].draw_pile \cup DrawnCards(events')} :
                    /\ \A i \in 1 .. Len(DeckCards(name)) : ~IsJailCard(name, i) => i \in new
                    /\ CardsInHand(players, PlayerIds) = 0
                          => \E i \in new : IsJailCard(name, i)
                    /\ CardsInHand(players, PlayerIds) >= Cardinality(DeckNames)
                          => \A i \in new : ~IsJailCard(name, i)]_vars

\* the first seat after `cur` in cyclic order whose player is not bankrupt
FirstActiveAfter(ps, cur) ==
    LET k == CHOOSE k \in 1 .. NumPlayers :
                /\ ~ps[(cur + k) % NumPlayers].is_bankrupt
                /\ \A j \in 1 .. (k - 1) : ps[(cur + j) % NumPlayers].is_bankrupt
    IN  (cur + k) % NumPlayers

\* C27: advance_turn (the step that records TURN_STARTED) adds exactly 1 to
\* turn_number, sets the phase to PRE_ROLL and, while some player is not
\* bankrupt, makes current the first non-bankrupt player after the previous
\* current one in cyclic order, so the current player is not bankrupt.
C27_AdvanceTurnSkipsBankrupt ==
    [][(pc = "engine" /\ \E i \in DOMAIN events' : events'[i].event_type = "TURN_STARTED")
          => /\ turn_number' = turn_number + 1
             /\ turn_phase' = "PRE_ROLL"
             /\ (\E q \in PlayerIds : ~players[q].is_bankrupt)
                   => /\ current_player_index'
                            = FirstActiveAfter(players, current_player_index)
                      /\ ~players'[current_player_index'].is_bankrupt]_vars

\* the turn has come back to player 0 because every other player is bankrupt
C27_Witness ==
    /\ \E i \in DOMAIN events : events[i].event_type = "TURN_STARTED"
    /\ current_player_index = 0
    /\ turn_number > 0
    /\ \A q \in PlayerIds \ {0} : players[q].is_bankrupt

-----------------------------------------------------------------------------
(* SpecEstate: one owner builds, sells, mortgages and unmortgages; the game *)
(* before the calls and the calls made are remembered                       *)

MaxEstateOps == 4
EstateCash == {2, 120, 700}
EstateOwner == BrownHeld[1]

EstateSetups ==
    {GameInProgress(BrownHeld, lv, [p \in PlayerIds |-> c], 0) :
        lv \in {Unbuilt, [Unbuilt EXCEPT ![1] = 1, ![3] = 1]}, c \in EstateCash}

EstateInit ==
    /\ \E g \in EstateSetups :
          /\ InitGame(g)
          /\ orch = [mode |-> "estate", before |-> g, ops |-> <<>>]
    /\ pc = "estate"
    /\ steps = 0
    /\ runner = NewRunner
    /\ srv = NoSrv

\* one engine call; it returned True exactly when it recorded an event
EstateStep(op, pos, after) ==
    /\ pc = "estate"
    /\ Len(orch.ops) < MaxEstateOps
    /\ SetGame(after)
    /\ orch' = [orch EXCEPT !.ops = Append(@, [op |-> op, pos |-> pos,
                                               ok |-> after.events # <<>>])]
    /\ UNCHANGED <<pc, steps, runner, srv>>

EstBuildHouse ==
    \E pos \in EnginePositions :
        Active(EstateOwner) /\ EstateStep("build_house", pos, build_house(Now, EstateOwner, pos))

EstSellHouse ==
    \E pos \in EnginePositions :
        Active(EstateOwner) /\ EstateStep("sell_house", pos, sell_house(Now, EstateOwner, pos))

EstMortgage ==
    \E pos \in EnginePositions :
        Active(EstateOwner) /\ EstateStep("mortgage_property", pos, mortgage_property(Now, EstateOwner, pos))

EstUnmortgage ==
    \E pos \in EnginePositions :
        Active(EstateOwner) /\ EstateStep("unmortgage_property", pos, unmortgage_property(Now, EstateOwner, pos))

EstateNext ==
    \/ EstBuildHouse
    \/ EstSellHouse
    \/ EstMortgage
    \/ EstUnmortgage

SpecEstate == EstateInit /\ [][EstateNext]_vars

\* everything but the owner's cash is as it was before the calls
RestoredButCash ==
    /\ [players EXCEPT ![EstateOwner].cash = orch.before.players[EstateOwner].cash]
          = orch.before.players
    /\ bank = orch.before.bank
    /\ property_owners = orch.before.property_owners
    /\ decks = orch.before.decks

\* the calls made are a successful mortgage of a property and then an
\* unmortgage of the same property
MortgageThenUnmortgage ==
    /\ pc = "estate"
    /\ Len(orch.ops) = 2
    /\ orch.ops[1].op = "mortgage_property"
    /\ orch.ops[1].ok
    /\ orch.ops[2].op = "unmortgage_property"
    /\ orch.ops[2].pos = orch.ops[1].pos

Interest(pos) == (get_mortgage_value(pos) * 11) \div 10 - get_mortgage_value(pos)

\* C29 as stated: mortgage_property followed at once by unmortgage_property of
\* the same property leaves the player's cash lower by floor(mv x 1.1) - mv
\* and everything else as before, for any player allowed to mortgage.
C29_MortgageRoundTrip ==
    MortgageThenUnmortgage
        => /\ players[EstateOwner].cash
                 = orch.before.players[EstateOwner].cash - Interest(orch.ops[1].pos)
           /\ RestoredButCash

\* C29 amended: the round trip holds for a player whose cash before the
\* mortgage covers the interest floor(mv x 1.1) - mv; the unmortgage then
\* succeeds, the cash is lower by the interest and everything else is as
\* before.
C29_MortgageRoundTripWhenAffordable ==
    (MortgageThenUnmortgage
     /\ orch.before.players[EstateOwner].cash >= Interest(orch.ops[1].pos))
        => /\ orch.ops[2].ok
           /\ players[EstateOwner].cash
                 = orch.before.players[EstateOwner].cash - Interest(orch.ops[1].pos)
           /\ RestoredButCash

\* a mortgage and the unmortgage of the same property have both succeeded
C29_Witness ==
    /\ MortgageThenUnmortgage
    /\ orch.ops[2].ok
    /\ players[EstateOwner].cash < orch.before.players[EstateOwner].cash

\* the calls made are N successful build_house calls and then N successful
\* sell_house calls
BuildsThenSells ==
    /\ pc = "estate"
    /\ Len(orch.ops) >= 2
    /\ Len(orch.ops) % 2 = 0
    /\ \A i \in DOMAIN orch.ops :
          /\ orch.ops[i].ok
          /\ orch.ops[i].op = IF 2 * i <= Len(orch.ops) THEN "build_house"
                              ELSE "sell_house"

\* C30: N houses built on a colour group and then N houses sold leave the
\* player's cash lower by N x house_cost - N x (house_cost / 2, integer
\* division), and every house count, the bank's houses and all other state as
\* before the builds.
C30_BuildSellRoundTrip ==
    BuildsThenSells
        => \E N \in {Len(orch.ops) \div 2} :
              \E house_cost \in {PROPERTIES(orch.ops[1].pos).house_cost} :
                 /\ players[EstateOwner].cash
                       = orch.before.players[EstateOwner].cash
                            - (N * house_cost - N * (house_cost \div 2))
                 /\ players[EstateOwner].houses = orch.before.players[EstateOwner].houses
                 /\ bank.houses_available = orch.before.bank.houses_available
                 /\ RestoredButCash

\* two houses built, one on each property of the group, and two houses sold
C30_Witness ==
    /\ BuildsThenSells
    /\ Len(orch.ops) = 4
    /\ orch.ops[1].pos # orch.ops[2].pos

-----------------------------------------------------------------------------
(* EventBus on its own: subscribe, unsubscribe and emit calls of any        *)
(* callbacks under any keys, the callbacks of an emit running one by one    *)
(* while other calls are made                                               *)
BusCallbacks == {"on_a", "on_b"}
BusKeys == {"TURN_STARTED", WILDCARD}
BusEvents == {"TURN_STARTED", "DICE_ROLLED"}

NoCall == [op |-> "none", key |-> WILDCARD, callback |-> "on_a", raised |-> FALSE]

BusInit ==
    /\ InitGame(NewGame([p \in PlayerIds |-> STARTING_CASH]))
    /\ pc = "start"
    /\ orch = NoOrch
    /\ steps = 0
    /\ runner = NewRunner
    /\ srv = [mode |-> "bus", bus |-> NewBus, before |-> NewBus, call |-> NoCall,
              emitting |-> FALSE, at_emit |-> NewBus, event_type |-> "GAME_STARTED",
              to_invoke |-> <<>>, invoked |-> <<>>]

BusFrame ==
    UNCHANGED <<players, bank, property_owners, current_player_index, turn_number,
                turn_phase, last_roll, events, decks, pc, orch, steps, runner>>

\* `await bus.subscribe(key, callback)`
BusSubscribe ==
    /\ \E key \in BusKeys, callback \in BusCallbacks :
          srv' = [srv EXCEPT !.before = srv.bus,
                             !.bus = subscribe(srv.bus, key, callback),
                             !.call = [op |-> "subscribe", key |-> key,
                                       callback |-> callback, raised |-> FALSE]]
    /\ BusFrame

\* `await bus.unsubscribe(key, callback)`
BusUnsubscribe ==
    /\ \E key \in BusKeys, callback \in BusCallbacks :
          srv' = [srv EXCEPT !.before = srv.bus,
                             !.bus = unsubscribe(srv.bus, key, callback),
                             !.call = [op |-> "unsubscribe", key |-> key,
                                       callback |-> callback, raised |-> FALSE]]
    /\ BusFrame

\* `await bus.emit(event)` up to its gather: the snapshot is taken under the lock
BusEmit ==
    /\ ~srv.emitting
    /\ \E event_type \in BusEvents :
          srv' = [srv EXCEPT !.emitting = TRUE,
                             !.at_emit = srv.bus,
                             !.event_type = event_type,
                             !.to_invoke = callbacks_to_invoke(srv.bus, event_type),
                             !.invoked = <<>>]
    /\ BusFrame

\* _safe_invoke of the next callback of the snapshot
BusInvoke ==
    /\ srv.emitting
    /\ srv.to_invoke # <<>>
    /\ srv' = [srv EXCEPT !.to_invoke = Tail(@), !.invoked = Append(@, Head(srv.to_invoke))]
    /\ BusFrame

\* gather completes and emit returns
BusEmitReturn ==
    /\ srv.emitting
    /\ srv.to_invoke = <<>>
    /\ srv' = [srv EXCEPT !.emitting = FALSE, !.at_emit = NewBus, !.invoked = <<>>]
    /\ BusFrame

BusNext == BusSubscribe \/ BusUnsubscribe \/ BusEmit \/ BusInvoke \/ BusEmitReturn

SpecBus == BusInit /\ [][BusNext]_vars

\* the list a key names
SubscribersOf(bus, key) ==
    IF key = WILDCARD THEN bus.wildcard_subscribers ELSE bus.subscribers[key]

Occurrences(seq, x) == Cardinality({i \in DOMAIN seq : seq[i] = x})

\* C31: subscribing a callback already subscribed under the key leaves the
\* bus unchanged, so no list ever holds a callback twice and an emit invokes
\* a callback once for each key (the event's type, the wildcard) it was
\* subscribed under when the emit took its snapshot; unsubscribing a
\* callback that is not subscribed under the key leaves the bus unchanged
\* and raises nothing.
C31_DuplicateSubscribeAndAbsentUnsubscribeAreNoOps ==
    /\ (srv.call.op = "subscribe" /\ InSeq(srv.call.callback, SubscribersOf(srv.before, srv.call.key)))
          => srv.bus = srv.before /\ ~srv.call.raised
    /\ (srv.call.op = "unsubscribe" /\ ~InSeq(srv.call.callback, SubscribersOf(srv.before, srv.call.key)))
          => srv.bus = srv.before /\ ~srv.call.raised
    /\ \A key \in BusKeys, callback \in BusCallbacks :
          Occurrences(SubscribersOf(srv.bus, key), callback) <= 1
    /\ (srv.emitting /\ srv.to_invoke = <<>>)
          => \A callback \in BusCallbacks :
                Occurrences(srv.invoked, callback) =
                    (IF InSeq(callback, SubscribersOf(srv.at_emit, srv.event_type)) THEN 1 ELSE 0)
                    + (IF InSeq(callback, SubscribersOf(srv.at_emit, WILDCARD)) THEN 1 ELSE 0)

\* a callback was subscribed again under a key it already had while an emit
\* that had invoked it was still running, and an emit has since completed
\* with that callback invoked
C31_Witness ==
    /\ srv.call.op = "subscribe"
    /\ InSeq(srv.call.callback, SubscribersOf(srv.before, srv.call.key))
    /\ srv.emitting
    /\ srv.to_invoke = <<>>
    /\ InSeq(srv.call.callback, srv.invoked)
    /\ Len(srv.invoked) > 1

-----------------------------------------------------------------------------
(* the status get_game_state and send_game_state_sync report *)

\* `"in_progress" if game_runner._running else ("paused" if
\* game_runner._paused else "finished")`
reported_status(r) ==
    IF r.running THEN "in_progress"
    ELSE IF r.paused THEN "paused"
    ELSE "finished"

\* C32: while a running game is paused (pause was applied inside the run
\* loop and neither resume nor stop has followed), the status that
\* get_game_state and the game_state_sync snapshot report is "paused".
C32_PausedGameReportsPaused ==
    (runner.loop = "looping" /\ runner.running /\ runner.paused)
        => reported_status(runner) = "paused"

-----------------------------------------------------------------------------
(* even building *)

\* the building level (0 to 5, 5 = hotel) standing on a property
Level(pos) ==
    IF property_owners[pos] = NoOwner THEN 0
    ELSE get_house_count(players[property_owners[pos]], pos)

ColorGroups == {PROPERTIES(pos).color_group : pos \in PropertyPositions}

\* C33: the building levels of any two properties of one colour group
\* differ by at most 1.
C33_EvenBuild ==
    \A cg \in ColorGroups : \A p, q \in COLOR_GROUP_POSITIONS(cg) :
        Level(p) - Level(q) <= 1

\* a colour group with a mortgaged property
HasMortgage(cg) ==
    \E q \in COLOR_GROUP_POSITIONS(cg), p \in PlayerIds : is_mortgaged(players[p], q)

\* C34: no building stands on any property of a colour group that contains
\* a mortgaged property.
C34_NoBuildingBesideMortgage ==
    \A cg \in ColorGroups :
        HasMortgage(cg)
            => \A q \in COLOR_GROUP_POSITIONS(cg), p \in PlayerIds :
                  get_house_count(players[p], q) = 0

-----------------------------------------------------------------------------
(* Properties of landings, checked under SpecCards *)

\* the last call was process_landing and left the player on position pos
LandedOn(pos) ==
    /\ orch.op = "process_landing"
    /\ players[orch.player].position = pos

\* the card the last landing drew
DrewCard(effect_types) ==
    /\ orch.op = "process_landing"
    /\ orch.card # NoCard
    /\ DeckCards(DeckOf(orch.before[orch.player].position))[orch.card].effect_type
            \in effect_types

GoSalaryPaid == IF HasEvent("PASSED_GO") THEN GO_SALARY ELSE 0

\* C35: when process_landing leaves the player on a mortgaged property,
\* railroad or utility of another player, reached by the dice or by a card
\* drawn in that landing, the owner's cash is what it was before and the
\* player's cash differs at most by the GO salary.
C35_NoRentForMortgaged ==
    \A pos \in Purchasable :
        (/\ LandedOn(pos)
         /\ property_owners[pos] \notin {NoOwner, orch.player}
         /\ is_mortgaged(players[property_owners[pos]], pos)
         /\ orch.card # NoCard =>
                DrewCard({"ADVANCE_TO", "ADVANCE_TO_NEAREST", "GO_BACK"}))
            => /\ players[property_owners[pos]].cash = orch.before[property_owners[pos]].cash
               /\ players[orch.player].cash = orch.before[orch.player].cash + GoSalaryPaid

\* C36: when process_landing returns with the player on an unowned
\* purchasable space, the result has requires_buy_decision set and carries
\* that space's position.
C36_UnownedLandingAsksBuyDecision ==
    \A pos \in Purchasable :
        (LandedOn(pos) /\ property_owners[pos] = NoOwner)
            => orch.result.requires_buy_decision /\ orch.result.position = pos

TotalCash(ps) == SumOver([p \in PlayerIds |-> ps[p].cash], PlayerIds)

\* C37: pay_rent and the PAY_EACH_PLAYER and COLLECT_FROM_EACH cards move
\* cash between players only: the players' total cash is what it was before.
C37_TransfersConserveCash ==
    (orch.op = "pay_rent" \/ DrewCard({"PAY_EACH_PLAYER", "COLLECT_FROM_EACH"}))
        => TotalCash(players) = TotalCash(orch.before)

-----------------------------------------------------------------------------
(* bankruptcy *)

\* C38: a bankrupt player (is_bankrupt is set by declare_bankruptcy only and
\* never cleared) holds nothing in every later state: cash 0, no
\* properties, no buildings, no mortgages, no jail cards, and no entry of
\* the ownership index.
C38_BankruptHoldsNothing ==
    \A p \in PlayerIds :
        players[p].is_bankrupt
            => /\ players[p].cash = 0
               /\ players[p].properties = {}
               /\ players[p].mortgaged = {}
               /\ players[p].get_out_of_jail_cards = 0
               /\ \A q \in PropertyPositions : get_house_count(players[p], q) = 0
               /\ \A q \in Purchasable : property_owners[q] # p

-----------------------------------------------------------------------------
(* History and the stream consumers *)

\* the entries History holds for the k-th event emitted on the bus
EntriesFor(k) == {i \in DOMAIN srv.history.events : srv.history.events[i].event = k}

\* C39: History holds at most one entry for each event emitted on the
\* session's bus, whatever the number of stream consumers subscribed.
C39_EachEventRecordedOnce ==
    \A k \in 1 .. srv.emitted : Cardinality(EntriesFor(k)) <= 1

-----------------------------------------------------------------------------
(* GAME_OVER, checked under SpecRunGame *)

GameOverIn(emitted) == \E i \in DOMAIN emitted : emitted[i].event_type = "GAME_OVER"

\* a GAME_OVER of run_game itself (any reason but "paused")
FinalGameOverIn(emitted) ==
    \E i \in DOMAIN emitted :
        emitted[i].event_type = "GAME_OVER" /\ emitted[i].reason # "paused"

\* everything of the game and of the turn in progress
TurnState ==
    <<players, bank, property_owners, current_player_index, turn_number, turn_phase,
      last_roll, events, decks, pc, orch, steps>>

\* C40 as stated: a GAME_OVER is emitted only when the run loop has ended.
C40_GameOverIsTerminal ==
    GameOverIn(runner.emitted) => runner.loop = "returned"

\* C40, amended: the GAME_OVER of run_game (reason completed or
\* max_turns_reached) is emitted by the one step in which the loop, standing
\* between two turns with its condition failed, ends; the loop never resumes
\* after it, and from then on no turn starts and the game does not change:
\* the only later events are the GAME_OVER with reason "paused" that every
\* pause() call emits, as it does while the loop is running.
C40_FinalGameOverIsTerminal ==
    /\ [][(FinalGameOverIn(runner'.emitted) /\ runner'.emitted # runner.emitted)
            => /\ runner.loop = "looping" /\ runner'.loop = "returned"
               /\ pc = "start"
               /\ ~loop_condition(Now, MaxTurns)]_vars
    /\ [][runner.loop = "returned"
            => /\ runner'.loop = "returned"
               /\ UNCHANGED TurnState
               /\ (~FinalGameOverIn(runner'.emitted) \/ runner'.emitted = runner.emitted)]_vars
    /\ [][(runner'.paused /\ ~runner.paused)
            => runner'.emitted = <<RunnerEvent("GAME_OVER", "paused")>>]_vars

\* run_game has returned with its whole budget of turns played, and pause()
\* has been called since
C40_Witness ==
    /\ runner.loop = "returned"
    /\ runner.returned_turns = MaxTurns
    /\ runner.paused
    /\ runner.emitted = <<RunnerEvent("GAME_OVER", "paused")>>

====
